---- MODULE Spec2Model ----
(***************************************************************************)
(* A model of the streaming event normalizer of juno-code's wrapper        *)
(* services (src/src/templates/services/codex.py, gemini.py, claude.py).   *)
(*                                                                         *)
(* Text is a sequence of characters.  A character is a one-element TLA+    *)
(* string; a run of ordinary letters that no scanner, parser or search of  *)
(* the program looks inside (a word such as "type" or "token_count") is    *)
(* kept as one element, so that texts stay short.                          *)
(***************************************************************************)
EXTENDS Integers, Sequences, FiniteSets, TLC

VARIABLES
    rs_impl,        \* reassembler run: which service's splitter is used
    rs_objs,        \* reassembler run: the objects the child wrote (history)
    rs_sep,         \* reassembler run: what the child wrote after each object
    rs_rest,        \* reassembler run: text of the stream not yet fed
    rs_pending,     \* reassembler run: remainder carried to the next call
    rs_out,         \* reassembler run: objects returned so far, in order
    rs_cut,         \* reassembler run: whether a chunk ended inside a string literal
    rn_service,     \* renderer run: "codex" or "claude" ("" in the other runs)
    rn_kind,        \* renderer run: the kind K of the codex event
    rn_path,        \* renderer run: the field of the payload that holds the text
    rn_value,       \* renderer run: the value held in that field
    rn_envelope,    \* renderer run: what the envelope-schema event was rendered to
    rn_item,        \* renderer run: what the item-schema event was rendered to
    rn_flat,        \* renderer run: what the flat-schema event was rendered to
    rn_line,        \* renderer run: the line handed to claude's pretty_format_json
    rn_claude,      \* renderer run: what pretty_format_json returned for it
    rn_more,        \* renderer run: a second field of the payload, if any
    user_message_truncate,  \* ClaudeService.user_message_truncate
    dr_impl,        \* driver run: "codex" (run_codex) or "gemini" (run_gemini)
    dr_items,       \* driver run: what the child wrote, item by item (history)
    dr_named,       \* driver run: the kinds the two environment variables name (history)
    dr_lines,       \* driver run: the lines of process.stdout not yet read
    dr_pc,          \* driver run: "start" before hide_types is resolved, "reading" in
                    \* the loop, "closed" after the tail flush
    environ,        \* run_codex: the two variables of os.environ it reads
    hide_types,     \* run_codex: hide_types
    pending,        \* run_codex, run_gemini: pending
    last_token_count,   \* run_codex: last_token_count
    dr_out,         \* driver run: the print calls on stdout so far, in order
    dr_seen,        \* driver run: the objects handed on for rendering so far (history)
    dr_dropped,     \* driver run: the raw spans dropped by name so far (history)
    cl_lines,       \* claude run: the lines of process.stdout not yet read
    cl_pretty,      \* claude run: run_claude's pretty argument
    message_counter,    \* ClaudeService.message_counter
    cl_out,         \* claude run: the print calls on stdout so far, in order
    pr_impl,        \* process run: "codex", "claude" or "gemini" ("" in the other runs)
    pr_pc,          \* process run: where run_codex, run_claude or run_gemini stands
    process,        \* the local variable process: whether bound, and its returncode
    child,          \* the child process: its state, exit status and stderr text
    pr_result,      \* process run: what the driver returned or raised
    pr_interrupts,  \* process run: where each KeyboardInterrupt arrived (history)
    pr_fault,       \* process run: where an OSError arrived ("" if none, history)
    pr_stderr,      \* process run: the print calls on sys.stderr so far, in order
    ss_file,        \* SlackStateManager: the state file, whether it exists and its lines
    messages,       \* SlackStateManager.messages
    message_ts_set, \* SlackStateManager.message_ts_set
    last_ts,        \* SlackStateManager.last_ts ("None" for None)
    ss_calls,       \* SlackStateManager: the mark_processed calls so far (history)
    rp_file,        \* ResponseStateManager: the state file, whether it exists and its lines
    sent_responses, \* ResponseStateManager.sent_responses
    sent_keys,      \* ResponseStateManager.sent_keys
    rp_calls,       \* ResponseStateManager: the calls since the last reset_state (history)
    managers,       \* which of the two state managers has been constructed
    reader,         \* a second manager constructed on the same state file, and what
                    \* it and the first one reported then
    invocation,     \* how many times the run method of the service object was called
    pp_pc,          \* pipe run: where the driver stands ("none" in the other runs)
    pipes,          \* pipe run: how much unread data the child's stdout and stderr pipes hold
    writer,         \* pipe run: the child, the writes it has still to do and its exit status
    pp_returned,    \* pipe run: what the run method returned, if it has
    wd_pc,          \* directory run: where run_claude stands ("none" in the other runs)
    cwd,            \* directory run: the working directory of the process
    original_cwd,   \* directory run: run_claude's local original_cwd
    project_path,   \* directory run: ClaudeService.project_path
    wd_dirs,        \* directory run: the directories that exist
    wd_child,       \* directory run: run_claude's local process and the child behind it
    wd_called_in,   \* directory run: the working directory when run_claude was called (history)
    wd_result,      \* directory run: how run_claude ended, if it has
    fr_events,      \* framing run: the two sequences of events handed to handle_obj
    fr_text,        \* framing run: the text each of the two sequences put on stdout
    sl_run,         \* respond runs: how many runs of main_loop began, and the tasks the
                    \* current one has still to go through
    sl_sent         \* respond runs: how many responses Slack got for each
                    \* (task_id, message_ts) since the last reset_state (history)

rs_vars == <<rs_impl, rs_objs, rs_sep, rs_rest, rs_pending, rs_out, rs_cut>>

rn_vars == <<rn_service, rn_kind, rn_path, rn_value, rn_envelope, rn_item, rn_flat,
             rn_line, rn_claude, rn_more>>

dr_vars == <<dr_impl, dr_items, dr_named, dr_lines, dr_pc, environ, hide_types, pending,
             last_token_count, dr_out, dr_seen, dr_dropped>>

cl_vars == <<cl_lines, cl_pretty, message_counter, cl_out>>

pr_vars == <<pr_impl, pr_pc, process, child, pr_result, pr_interrupts, pr_fault, pr_stderr>>

ss_vars == <<ss_file, messages, message_ts_set, last_ts, ss_calls>>

rp_vars == <<rp_file, sent_responses, sent_keys, rp_calls>>

ps_vars == <<managers, reader>>

pp_vars == <<pp_pc, pipes, writer, pp_returned>>

wd_vars == <<wd_pc, cwd, original_cwd, project_path, wd_dirs, wd_child, wd_called_in, wd_result>>

fr_vars == <<fr_events, fr_text>>

sl_vars == <<sl_run, sl_sent>>

sv_vars == <<invocation, pp_vars, wd_vars, fr_vars, sl_vars>>

ext_vars == <<pr_vars, ss_vars, rp_vars, ps_vars, sv_vars>>

vars == <<rs_vars, rn_vars, user_message_truncate, dr_vars, cl_vars, ext_vars>>

\* The runs of one part of the program leave the variables of the others at rest.
RsIdle ==
    /\ rs_impl = "" /\ rs_objs = <<>> /\ rs_sep = <<>> /\ rs_rest = <<>>
    /\ rs_pending = <<>> /\ rs_out = <<>> /\ rs_cut = FALSE

ClIdle ==
    /\ cl_lines = <<>> /\ cl_pretty = TRUE /\ message_counter = 0 /\ cl_out = <<>>

\* Outside the runs of a whole process, the driver stands in its loop over
\* process.stdout and nothing else happens to it.
PrIdle ==
    /\ pr_impl = "" /\ pr_pc = "loop"
    /\ process = [bound |-> TRUE, waited |-> FALSE, returncode |-> 0]
    /\ child = [state |-> "running", status |-> 0, signalled |-> FALSE, stderr |-> <<>>]
    /\ pr_result = [kind |-> "none", code |-> 0, exc |-> ""]
    /\ pr_interrupts = <<>> /\ pr_fault = "" /\ pr_stderr = <<>>

\* A manager nobody calls, over a state file that does not exist
SsIdle ==
    /\ ss_file = [exists |-> FALSE, lines |-> <<>>]
    /\ messages = <<>> /\ message_ts_set = {} /\ last_ts = "None" /\ ss_calls = <<>>

RpIdle ==
    /\ rp_file = [exists |-> FALSE, lines |-> <<>>]
    /\ sent_responses = <<>> /\ sent_keys = {} /\ rp_calls = <<>>

\* What a manager reports: its count, the timestamps (the pairs) it answers
\* True for, the task id of each timestamp and the last timestamp
NoView == [count |-> 0, answers |-> {}, task_ids |-> <<>>, last_ts |-> "None"]

NoReader == [of |-> "none", calls |-> 0, view |-> NoView, writer |-> NoView]

PsIdle == managers = {} /\ reader = NoReader

\* No child with bounded pipes
PpIdle ==
    /\ pp_pc = "none"
    /\ pipes = [stdout |-> 0, stderr |-> 0]
    /\ writer = [todo |-> <<>>, state |-> "none", status |-> 0]
    /\ pp_returned = [done |-> FALSE, code |-> 0]

\* A service object on which a run method has been called once
\* A local name that no assignment has bound yet
Unbound == "<unbound>"

\* No run that follows the working directory
WdIdle ==
    /\ wd_pc = "none"
    /\ cwd = "" /\ original_cwd = Unbound /\ project_path = "" /\ wd_called_in = ""
    /\ wd_dirs = {}
    /\ wd_child = [bound |-> FALSE, state |-> "none", status |-> 0, lines |-> 0,
                   spawned_in |-> "", returncode |-> 0]
    /\ wd_result = [kind |-> "none", code |-> 0, exc |-> ""]

\* No pair of outputs to compare
FrIdle == fr_events = <<<<>>, <<>>>> /\ fr_text = <<<<>>, <<>>>>

\* No run of the respond loop
SlIdle == sl_run = [n |-> 0, active |-> FALSE, todo |-> <<>>] /\ sl_sent = <<>>

SvIdle == invocation = 1 /\ PpIdle /\ WdIdle /\ FrIdle /\ SlIdle

ExtIdle == PrIdle /\ SsIdle /\ RpIdle /\ PsIdle /\ SvIdle

----------------------------------------------------------------------------
(* Characters *)

LB == "{"
RB == "}"
DQ == "\""
SQ == "'"
BS == "\\"
NL == "\n"
SP == " "
DEL == "DEL"          \* ASCII 0x7f
COLON == ":"
COMMA == ","
LSQ == "["
RSQ == "]"

Whitespace == {SP, NL}

----------------------------------------------------------------------------
(* Text helpers: Python's str methods *)

RECURSIVE Concat(_)
Concat(ss) == IF ss = <<>> THEN <<>> ELSE Head(ss) \o Concat(Tail(ss))

RECURSIVE LStrip(_, _)
LStrip(s, cs) ==
    IF s # <<>> /\ Head(s) \in cs THEN LStrip(Tail(s), cs) ELSE s

RECURSIVE RStrip(_, _)
RStrip(s, cs) ==
    IF s # <<>> /\ s[Len(s)] \in cs THEN RStrip(SubSeq(s, 1, Len(s) - 1), cs) ELSE s

\* str.strip(chars)
StripChars(s, cs) == RStrip(LStrip(s, cs), cs)

\* str.strip()
strip(s) == StripChars(s, Whitespace)

\* c in s, for a single character c
HasChar(s, c) == \E i \in 1..Len(s) : s[i] = c

\* sub in s, for a text sub
Contains(s, sub) ==
    \E i \in 0..(Len(s) - Len(sub)) : SubSeq(s, i + 1, i + Len(sub)) = sub

\* s.find(c): the 0-based index of the first c, or -1
find(s, c) ==
    IF HasChar(s, c) THEN (CHOOSE i \in 1..Len(s) : s[i] = c /\ \A j \in 1..(i - 1) : s[j] # c) - 1
    ELSE -1

endswith(s, c) == s # <<>> /\ s[Len(s)] = c

\* s is a prefix of t
IsPrefix(s, t) == Len(s) <= Len(t) /\ SubSeq(t, 1, Len(s)) = s

\* The sequences of 1..n elements of S
SeqsUpTo(S, n) == UNION { [1..m -> S] : m \in 1..n }

\* The stream a child writes: each object followed by sep
RECURSIVE StreamOf(_, _)
StreamOf(objs, sep) ==
    IF objs = <<>> THEN <<>> ELSE Head(objs) \o sep \o StreamOf(Tail(objs), sep)

----------------------------------------------------------------------------
(* The chunk reassembler: split_json_stream *)

ScanInit ==
    [objs |-> <<>>, buf |-> <<>>, depth |-> 0,
     in_str |-> FALSE, esc |-> FALSE, started |-> FALSE]

\* candidate = ''.join(buf).strip().strip("'\"")
Candidate(buf) == StripChars(strip(buf), {SQ, DQ})

\* A scanner for which a quote ends the string even after a backslash.
ScanInStringNoEscape(st, ch) ==
    LET kept == [st EXCEPT !.buf = Append(@, ch)]
    IN  IF ch = DQ THEN [kept EXCEPT !.in_str = FALSE] ELSE kept

\* A scanner that counts braces inside string literals too.
ScanInStringCountingBraces(st, ch) ==
    LET kept == [st EXCEPT !.buf = Append(@, ch)]
        quoted == IF st.esc THEN [kept EXCEPT !.esc = FALSE]
                  ELSE IF ch = BS THEN [kept EXCEPT !.esc = TRUE]
                  ELSE IF ch = DQ THEN [kept EXCEPT !.in_str = FALSE]
                  ELSE kept
    IN  IF ch = LB /\ ~st.esc
        THEN [quoted EXCEPT !.depth = @ + 1, !.started = TRUE]
        ELSE IF ch = RB /\ ~st.esc
        THEN [quoted EXCEPT !.depth = @ - 1]
        ELSE quoted

\* The branch taken while in_str holds: the character is kept, and only the
\* escape flag and the closing quote are looked at.
ScanInString(st, ch) ==
    LET kept == [st EXCEPT !.buf = Append(@, ch)]
    IN  IF st.esc THEN [kept EXCEPT !.esc = FALSE]
        ELSE IF ch = BS THEN [kept EXCEPT !.esc = TRUE]
        ELSE IF ch = DQ THEN [kept EXCEPT !.in_str = FALSE]
        ELSE kept

\* The rest of the loop body, for a character met outside a string literal;
\* keepOutside is what the service does with a character outside any object.
ScanOutside(st, ch, keepOutside) ==
    IF ch = DQ THEN [st EXCEPT !.in_str = TRUE, !.buf = Append(@, ch)]
    ELSE IF ch = LB
        THEN [st EXCEPT !.depth = @ + 1, !.started = TRUE, !.buf = Append(@, ch)]
    ELSE IF ch = RB
        THEN LET d == st.depth - 1
                 b == Append(st.buf, ch)
             IN  IF st.started /\ d = 0
                 THEN [st EXCEPT !.depth = d,
                                 !.objs = IF Candidate(b) # <<>>
                                          THEN Append(@, Candidate(b)) ELSE @,
                                 !.buf = <<>>,
                                 !.started = FALSE]
                 ELSE [st EXCEPT !.depth = d, !.buf = b]
    ELSE IF st.started THEN [st EXCEPT !.buf = Append(@, ch)]
    ELSE IF keepOutside /\ ch # DEL THEN [st EXCEPT !.buf = Append(@, ch)]
    ELSE st

\* The loop body for the characters text[lo..hi], taken in order: the first
\* half of the span, and the second half once the state the first one leaves
\* is known
RECURSIVE ScanSpan(_, _, _, _, _)
ScanSpan(text, lo, hi, st, keepOutside) ==
    LET SecondHalf(from, half) ==
            IF half.in_str \in BOOLEAN
            THEN ScanSpan(text, from, hi, half, keepOutside) ELSE half
    IN  IF lo > hi THEN st
        ELSE IF lo = hi
        THEN IF st.in_str THEN ScanInString(st, text[lo])
             ELSE ScanOutside(st, text[lo], keepOutside)
        ELSE SecondHalf(((lo + hi) \div 2) + 1,
                        ScanSpan(text, lo, (lo + hi) \div 2, st, keepOutside))

\* for ch in text[i..]: the loop that codex.py and gemini.py share
ScanFrom(text, i, st, keepOutside) == ScanSpan(text, i, Len(text), st, keepOutside)

\* for ch in text
Scan(text, keepOutside) == ScanFrom(text, 1, ScanInit, keepOutside)

\* codex.py: characters outside an object are dropped
split_json_stream(text) ==
    LET Result(st) == [objs |-> st.objs, remainder |-> st.buf, in_str |-> st.in_str]
    IN  Result(Scan(text, FALSE))

\* gemini.py: characters outside an object are kept, except 0x7f
gemini_split_json_stream(text) ==
    LET Result(st) == [objs |-> st.objs, remainder |-> st.buf, in_str |-> st.in_str]
    IN  Result(Scan(text, TRUE))

Split(impl, text) ==
    IF impl = "codex" THEN split_json_stream(text) ELSE gemini_split_json_stream(text)

----------------------------------------------------------------------------
(* JSON values, as Python holds them after json.loads.  A value is a record *)
(* [t, v]: a string ("str", its characters), a dict ("obj", its items as a  *)
(* sequence of <<key, value>> in insertion order), a list ("list", its      *)
(* elements) or a number, true, false or null ("lit", its one word).        *)

Str(s) == [t |-> "str", v |-> s]
Lit(w) == [t |-> "lit", v |-> <<w>>]
Obj(items) == [t |-> "obj", v |-> items]
Lst(elems) == [t |-> "list", v |-> elems]
None == Lit("null")

JsonLiterals == {"null", "true", "false", "0", "5"}

IsStr(x) == x.t = "str"
IsDict(x) == x.t = "obj"
IsList(x) == x.t = "list"

HasKey(d, k) == \E i \in 1..Len(d.v) : d.v[i][1] = k

\* d.get(k, default) on a dict
GetOr(d, k, default) ==
    IF HasKey(d, k) THEN d.v[CHOOSE i \in 1..Len(d.v) : d.v[i][1] = k][2] ELSE default

\* d.get(k)
Get(d, k) == GetOr(d, k, None)

\* d[k] = x: a present key keeps its place, a new key goes last
Put(d, k, x) ==
    IF HasKey(d, k)
    THEN Obj([d.v EXCEPT ![CHOOSE i \in 1..Len(d.v) : d.v[i][1] = k] = <<k, x>>])
    ELSE Obj(Append(d.v, <<k, x>>))

\* bool(x)
Truthy(x) ==
    IF x.t = "lit" THEN x.v[1] \notin {"null", "false", "0"} ELSE x.v # <<>>

\* x or y
Or(x, y) == IF Truthy(x) THEN x ELSE y

----------------------------------------------------------------------------
(* json.dumps(x, ensure_ascii=False) and the layouts a child may write *)

RECURSIVE Escape(_)
Escape(s) ==
    IF s = <<>> THEN <<>>
    ELSE (CASE Head(s) = DQ -> <<BS, DQ>>
            [] Head(s) = BS -> <<BS, BS>>
            [] Head(s) = NL -> <<BS, "n">>
            [] OTHER -> <<Head(s)>>) \o Escape(Tail(s))

DumpsStr(s) == <<DQ>> \o Escape(s) \o <<DQ>>

\* lay |-> [open, item, key, close]: the text written after an opening brace,
\* between two items, after a key's colon and before a closing brace.
RECURSIVE DumpsLay(_, _)
RECURSIVE DumpsItems(_, _, _)
DumpsItems(items, i, lay) ==
    IF i > Len(items) THEN <<>>
    ELSE (IF i > 1 THEN <<COMMA>> \o lay.item ELSE <<>>)
         \o DumpsStr(items[i][1]) \o <<COLON>> \o lay.key
         \o DumpsLay(items[i][2], lay)
         \o DumpsItems(items, i + 1, lay)

RECURSIVE DumpsElems(_, _, _)
DumpsElems(elems, i, lay) ==
    IF i > Len(elems) THEN <<>>
    ELSE (IF i > 1 THEN <<COMMA>> \o lay.item ELSE <<>>)
         \o DumpsLay(elems[i], lay)
         \o DumpsElems(elems, i + 1, lay)

DumpsLay(x, lay) ==
    CASE x.t = "str" -> DumpsStr(x.v)
      [] x.t = "lit" -> x.v
      [] x.t = "obj" ->
            IF x.v = <<>> THEN <<LB, RB>>
            ELSE <<LB>> \o lay.open \o DumpsItems(x.v, 1, lay) \o lay.close \o <<RB>>
      [] x.t = "list" ->
            IF x.v = <<>> THEN <<LSQ, RSQ>>
            ELSE <<LSQ>> \o lay.open \o DumpsElems(x.v, 1, lay) \o lay.close \o <<RSQ>>

\* Python's default separators: ", " and ": "
PyLayout == [open |-> <<>>, item |-> <<SP>>, key |-> <<SP>>, close |-> <<>>]
\* separators without spaces
CompactLayout == [open |-> <<>>, item |-> <<>>, key |-> <<>>, close |-> <<>>]
\* one item per line (indent=...)
IndentLayout == [open |-> <<NL, SP>>, item |-> <<NL, SP>>, key |-> <<SP>>, close |-> <<NL>>]

dumps(x) == DumpsLay(x, PyLayout)

----------------------------------------------------------------------------
(* json.loads(text): a result [ok, val]; ok = FALSE is JSONDecodeError *)

ParseFail == [ok |-> FALSE, val |-> None, pos |-> 0]

RECURSIVE SkipWs(_, _)
SkipWs(text, i) ==
    IF i <= Len(text) /\ text[i] \in Whitespace THEN SkipWs(text, i + 1) ELSE i

\* The characters of a string literal whose opening quote is before i.
RECURSIVE ParseStrBody(_, _, _)
ParseStrBody(text, i, acc) ==
    IF i > Len(text) THEN ParseFail
    ELSE IF text[i] = DQ THEN [ok |-> TRUE, val |-> acc, pos |-> i + 1]
    ELSE IF text[i] = NL THEN ParseFail
    ELSE IF text[i] = BS
        THEN IF i + 1 > Len(text) THEN ParseFail
             ELSE IF text[i + 1] = DQ THEN ParseStrBody(text, i + 2, Append(acc, DQ))
             ELSE IF text[i + 1] = BS THEN ParseStrBody(text, i + 2, Append(acc, BS))
             ELSE IF text[i + 1] = "n" THEN ParseStrBody(text, i + 2, Append(acc, NL))
             ELSE ParseFail
    ELSE ParseStrBody(text, i + 1, Append(acc, text[i]))

RECURSIVE ParseValue(_, _)
RECURSIVE ParseItems(_, _, _)
RECURSIVE ParseElems(_, _, _)

\* The items of an object, the next key's quote expected at i.
ParseItems(text, i, d) ==
    LET AfterValue(k, x, e) ==
            IF e > Len(text) THEN ParseFail
            ELSE IF text[e] = RB
                THEN [ok |-> TRUE, val |-> Put(d, k.val, x.val), pos |-> e + 1]
            ELSE IF text[e] = COMMA
                THEN ParseItems(text, SkipWs(text, e + 1), Put(d, k.val, x.val))
            ELSE ParseFail
        OfValue(k, x) ==
            IF ~x.ok THEN ParseFail ELSE AfterValue(k, x, SkipWs(text, x.pos))
        AfterKey(k, c) ==
            IF c > Len(text) \/ text[c] # COLON THEN ParseFail
            ELSE OfValue(k, ParseValue(text, c + 1))
        OfKey(k) == IF ~k.ok THEN ParseFail ELSE AfterKey(k, SkipWs(text, k.pos))
    IN  IF i > Len(text) \/ text[i] # DQ THEN ParseFail
        ELSE OfKey(ParseStrBody(text, i + 1, <<>>))

\* The elements of a list, the next element expected at i.
ParseElems(text, i, acc) ==
    LET AfterElem(x, e) ==
            IF e > Len(text) THEN ParseFail
            ELSE IF text[e] = RSQ
                THEN [ok |-> TRUE, val |-> Lst(Append(acc, x.val)), pos |-> e + 1]
            ELSE IF text[e] = COMMA
                THEN ParseElems(text, e + 1, Append(acc, x.val))
            ELSE ParseFail
        OfElem(x) == IF ~x.ok THEN ParseFail ELSE AfterElem(x, SkipWs(text, x.pos))
    IN  OfElem(ParseValue(text, i))

ParseValue(text, i0) ==
    LET OfString(body) ==
            IF body.ok THEN [ok |-> TRUE, val |-> Str(body.val), pos |-> body.pos]
            ELSE ParseFail
        ObjectFrom(j) ==
            IF j <= Len(text) /\ text[j] = RB
            THEN [ok |-> TRUE, val |-> Obj(<<>>), pos |-> j + 1]
            ELSE ParseItems(text, j, Obj(<<>>))
        ListFrom(j) ==
            IF j <= Len(text) /\ text[j] = RSQ
            THEN [ok |-> TRUE, val |-> Lst(<<>>), pos |-> j + 1]
            ELSE ParseElems(text, j, <<>>)
        ValueAt(i) ==
            IF i > Len(text) THEN ParseFail
            ELSE IF text[i] = DQ THEN OfString(ParseStrBody(text, i + 1, <<>>))
            ELSE IF text[i] = LB THEN ObjectFrom(SkipWs(text, i + 1))
            ELSE IF text[i] = LSQ THEN ListFrom(SkipWs(text, i + 1))
            ELSE IF text[i] \in JsonLiterals
                THEN [ok |-> TRUE, val |-> Lit(text[i]), pos |-> i + 1]
            ELSE ParseFail
    IN  ValueAt(SkipWs(text, i0))

loads(text) ==
    LET Whole(x) ==
            IF x.ok /\ SkipWs(text, x.pos) > Len(text)
            THEN [ok |-> TRUE, val |-> x.val]
            ELSE [ok |-> FALSE, val |-> None]
    IN  Whole(ParseValue(text, 1))

----------------------------------------------------------------------------
(* codex.py: field extraction, the renderer and the normalizer *)

\* datetime.now().strftime("%I:%M:%S %p"), one wall-clock reading
now == "12:00:00 PM"

\* _first_nonempty_str(*values)
RECURSIVE _first_nonempty_str(_)
_first_nonempty_str(values) ==
    IF values = <<>> THEN <<>>
    ELSE IF IsStr(Head(values)) /\ Head(values).v # <<>> THEN Head(values).v
    ELSE _first_nonempty_str(Tail(values))

\* "\n".join(parts)
RECURSIVE JoinLines(_)
JoinLines(parts) ==
    IF parts = <<>> THEN <<>>
    ELSE IF Len(parts) = 1 THEN parts[1]
    ELSE parts[1] \o <<NL>> \o JoinLines(Tail(parts))

\* The text of one entry of a content array, <<>> when it has none
ContentEntryText(entry) ==
    LET IfText(text_val) ==
            IF IsStr(text_val) /\ text_val.v # <<>> THEN <<text_val.v>> ELSE <<>>
    IN  IF ~IsDict(entry) THEN <<>>
        ELSE IfText(Or(Get(entry, <<"text">>),
                    Or(Get(entry, <<"message">>),
                    Or(Get(entry, <<"output_text">>), Get(entry, <<"input_text">>)))))

RECURSIVE ContentParts(_)
ContentParts(entries) ==
    IF entries = <<>> THEN <<>>
    ELSE ContentEntryText(Head(entries)) \o ContentParts(Tail(entries))

\* _extract_content_text(payload)
_extract_content_text(payload) ==
    LET Joined(content) ==
            IF IsList(content) THEN JoinLines(ContentParts(content.v)) ELSE <<>>
    IN  Joined(IF IsDict(payload) THEN Get(payload, <<"content">>) ELSE None)

\* payload.get(k) if isinstance(payload.get(k), dict) else None
DictField(payload, k) == IF IsDict(Get(payload, k)) THEN Get(payload, k) ELSE None

\* obj.get(k) if obj else None
GetIf(obj, k) == IF IsDict(obj) THEN Get(obj, k) ELSE None

\* _extract_command_output_text(payload)
_extract_command_output_text(payload) ==
    LET First(result) ==
            _first_nonempty_str(<<
                Get(payload, <<"aggregated_output">>),
                Get(payload, <<"output">>),
                Get(payload, <<"formatted_output">>),
                GetIf(result, <<"aggregated_output">>),
                GetIf(result, <<"output">>),
                GetIf(result, <<"formatted_output">>),
                Str(_extract_content_text(payload)) >>)
    IN  IF ~IsDict(payload) THEN <<>>
        ELSE First(DictField(payload, <<"result">>))

\* _extract_reasoning_text(payload)
_extract_reasoning_text(payload) ==
    LET First(reasoning_obj, result_obj) ==
            _first_nonempty_str(<<
                Get(payload, <<"text">>),
                Get(payload, <<"reasoning_text">>),
                GetIf(reasoning_obj, <<"text">>),
                GetIf(result_obj, <<"text">>),
                Str(_extract_content_text(payload)) >>)
    IN  IF ~IsDict(payload) THEN <<>>
        ELSE First(DictField(payload, <<"reasoning">>), DictField(payload, <<"result">>))

\* _extract_message_text(payload)
_extract_message_text(payload) ==
    LET First(result_obj) ==
            _first_nonempty_str(<<
                Get(payload, <<"message">>),
                Get(payload, <<"text">>),
                Get(payload, <<"final">>),
                GetIf(result_obj, <<"message">>),
                GetIf(result_obj, <<"text">>),
                Str(_extract_content_text(payload)) >>)
    IN  IF ~IsDict(payload) THEN <<>>
        ELSE First(DictField(payload, <<"result">>))

\* "\n" in content raises TypeError for a number, a boolean and None
InRaises(content) == content.t = "lit"

\* "\n" in content: a substring of a string, an element of a list, a key of a dict
InNL(content) ==
    CASE content.t = "str" -> HasChar(content.v, NL)
      [] content.t = "list" -> \E i \in 1..Len(content.v) : content.v[i] = Str(<<NL>>)
      [] content.t = "obj" -> HasKey(content, <<NL>>)
      [] OTHER -> FALSE

\* What _format_msg_pretty returns: None, or the text to print; field and
\* content record the label and the extracted text the text was built from.
NoneResult == [none |-> TRUE, text |-> <<>>, field |-> "", content |-> None]

\* A renderer that writes the body through json.dumps, escapes and quotes included.
EscapedBlockText(header, field, content) ==
    dumps(header) \o <<NL, field, COLON, NL>> \o DumpsStr(content)

\* json.dumps(header) + "\n<field>:\n" + content
BlockText(header, field, content) ==
    dumps(header) \o <<NL, field, COLON, NL>> \o content

\* A renderer with no block form: the text always goes into the header.
AlwaysInline(header, field, content) ==
    IF InRaises(content) THEN NoneResult
    ELSE [none |-> FALSE, text |-> dumps(Put(header, <<field>>, content)),
          field |-> field, content |-> content]

\* The two-way choice every kind ends in: a block when the text holds a line
\* break, the text inlined in the header otherwise.
BlockOrInline(header, field, content) ==
    IF InRaises(content) THEN NoneResult
    ELSE IF InNL(content)
        THEN IF IsStr(content)
             THEN [none |-> FALSE, text |-> BlockText(header, field, content.v),
                   field |-> field, content |-> content]
             ELSE NoneResult
        ELSE [none |-> FALSE, text |-> dumps(Put(header, <<field>>, content)),
              field |-> field, content |-> content]

\* The header alone
HeaderOnly(header) ==
    [none |-> FALSE, text |-> dumps(header), field |-> "", content |-> Str(<<>>)]

\* A header without its datetime
HeaderTypeOnly(type) == Obj(<< <<<<"type">>, Str(type)>> >>)

Header2(type) == Obj(<< <<<<"type">>, Str(type)>>, <<<<"datetime">>, Str(<<now>>)>> >>)

\* header["item_type"] = msg_type, when the outer type differs
\* A header that never names the kind beside the outer type
WithItemTypeNever(header, msg_type, outer_type) == header

WithItemType(header, msg_type, outer_type) ==
    IF outer_type # <<>> /\ msg_type # <<>> /\ outer_type # msg_type
    THEN Put(header, <<"item_type">>, Str(msg_type)) ELSE header

\* A header without the command and the status of the payload
WithoutContext(header, payload) == header

\* command, status and state copied into the header
WithContext(header, payload) ==
    LET WithState(h2) ==
            IF Truthy(Get(payload, <<"state">>)) /\ ~Truthy(Get(h2, <<"status">>))
            THEN Put(h2, <<"status">>, Get(payload, <<"state">>)) ELSE h2
        WithStatus(h1) ==
            WithState(IF Truthy(Get(payload, <<"status">>))
                      THEN Put(h1, <<"status">>, Get(payload, <<"status">>)) ELSE h1)
    IN  WithStatus(IF Truthy(Get(payload, <<"command">>))
                   THEN Put(header, <<"command">>, Get(payload, <<"command">>))
                   ELSE header)

\* _format_msg_pretty(msg_type, payload, outer_type)
_format_msg_pretty(msg_type0, payload, outer_type) ==
    LET \* header, as built at lines 285-296
        ContextHeader(msg_type, header_type) ==
            IF IsDict(payload)
            THEN WithContext(
                     WithItemType(
                         Header2(IF header_type # <<>> THEN header_type
                                 ELSE IF msg_type # <<>> THEN msg_type ELSE <<"message">>),
                         msg_type, outer_type),
                     payload)
            ELSE WithItemType(
                     Header2(IF header_type # <<>> THEN header_type
                             ELSE IF msg_type # <<>> THEN msg_type ELSE <<"message">>),
                     msg_type, outer_type)
        \* header, as rebuilt at lines 310-312 and 320-322
        KindHeader(msg_type, header_type) ==
            WithItemType(Header2(IF header_type # <<>> THEN header_type ELSE msg_type),
                         msg_type, outer_type)
        Message(header, header_type, content) ==
            IF content # <<>> THEN BlockOrInline(header, "message", Str(content))
            ELSE IF header_type # <<>> THEN HeaderOnly(header)
            ELSE NoneResult
        Command(header, header_type, aggregated_output) ==
            IF aggregated_output # <<>>
            THEN BlockOrInline(header, "aggregated_output", Str(aggregated_output))
            ELSE IF header_type # <<>> THEN HeaderOnly(header)
            ELSE NoneResult
        OfKind(msg_type, header_type) ==
            IF msg_type = <<"agent_message">>
            THEN BlockOrInline(Header2(msg_type), "message",
                     IF IsDict(payload) THEN GetOr(payload, <<"message">>, Str(<<>>))
                     ELSE Str(<<>>))
            ELSE IF msg_type \in {<<"agent_reasoning">>, <<"reasoning">>}
            THEN BlockOrInline(KindHeader(msg_type, header_type), "text",
                               Str(_extract_reasoning_text(payload)))
            ELSE IF msg_type \in {<<"message">>, <<"assistant_message">>, <<"assistant">>}
            THEN Message(KindHeader(msg_type, header_type), header_type,
                         _extract_message_text(payload))
            ELSE IF msg_type = <<"exec_command_end">>
            THEN BlockOrInline(Header2(msg_type), "formatted_output",
                     IF IsDict(payload) THEN GetOr(payload, <<"formatted_output">>, Str(<<>>))
                     ELSE Str(<<>>))
            ELSE IF msg_type = <<"command_execution">>
            THEN Command(ContextHeader(msg_type, header_type), header_type,
                         _extract_command_output_text(payload))
            ELSE NoneResult
        Stripped(msg_type) ==
            OfKind(msg_type, strip(IF outer_type # <<>> THEN outer_type ELSE msg_type))
    IN  Stripped(strip(msg_type0))

\* (x or "").strip() raises AttributeError when x is truthy and no string
StripRaises(x) == Truthy(x) /\ ~IsStr(x)
StripOrEmpty(x) == IF Truthy(x) /\ IsStr(x) THEN strip(x.v) ELSE <<>>

\* A normalizer that takes the kind of an item-schema event from the item but
\* leaves the item's fields behind.
NormalizeWithoutItemFields(obj_dict) ==
    LET msg == IF IsDict(Get(obj_dict, <<"msg">>)) THEN Get(obj_dict, <<"msg">>) ELSE Obj(<<>>)
        item == DictField(obj_dict, <<"item">>)
        outer_type == StripOrEmpty(Get(obj_dict, <<"type">>))
        msg_type == StripOrEmpty(Get(msg, <<"type">>))
        use_item == msg_type = <<>> /\ IsDict(item)
        item_type == StripOrEmpty(Get(item, <<"type">>))
    IN  IF use_item
        THEN [exc |-> FALSE,
              msg_type |-> IF item_type # <<>> THEN item_type ELSE outer_type,
              payload |-> Obj(<<>>), outer_type |-> outer_type]
        ELSE [exc |-> FALSE,
              msg_type |-> IF msg_type # <<>> THEN msg_type ELSE outer_type,
              payload |-> msg, outer_type |-> outer_type]

\* _normalize_event(obj_dict): (msg_type, payload, outer_type), or an exception
_normalize_event(obj_dict) ==
    LET Normalized(msg, item, outer_type, msg_type, item_type) ==
            IF \/ StripRaises(Get(obj_dict, <<"type">>))
               \/ StripRaises(Get(msg, <<"type">>))
               \/ msg_type = <<>> /\ IsDict(item) /\ StripRaises(Get(item, <<"type">>))
            THEN [exc |-> TRUE, msg_type |-> <<>>, payload |-> Obj(<<>>), outer_type |-> <<>>]
            ELSE IF msg_type = <<>> /\ IsDict(item)
            THEN [exc |-> FALSE,
                  msg_type |-> IF item_type # <<>> THEN item_type ELSE outer_type,
                  payload |-> item, outer_type |-> outer_type]
            ELSE [exc |-> FALSE,
                  msg_type |-> IF msg_type # <<>> THEN msg_type ELSE outer_type,
                  payload |-> msg, outer_type |-> outer_type]
        Parts(msg, item) ==
            Normalized(msg, item,
                       StripOrEmpty(Get(obj_dict, <<"type">>)),
                       StripOrEmpty(Get(msg, <<"type">>)),
                       StripOrEmpty(Get(item, <<"type">>)))
    IN  Parts(IF IsDict(Get(obj_dict, <<"msg">>)) THEN Get(obj_dict, <<"msg">>) ELSE Obj(<<>>),
              DictField(obj_dict, <<"item">>))

\* default_hidden
default_hidden == {<<"turn_diff">>, <<"token_count">>, <<"exec_command_output_delta">>}

\* A holding cell that keeps the first token_count event it is given
KeepFirstTokenCount(token_count, obj_dict) ==
    IF token_count = None THEN obj_dict ELSE token_count

\* last_token_count = obj_dict
StoreTokenCount(token_count, obj_dict) == obj_dict

\* handle_obj(obj_dict): what it prints (at most one text; via tells whether
\* the renderer or json.dumps of the object produced it, field and content what
\* the renderer built it from), the new last_token_count, and whether it raised.
handle_obj(obj_dict, hide, token_count) ==
    LET quiet == [exc |-> FALSE, printed |-> FALSE, via |-> "none", text |-> <<>>,
                  field |-> "", content |-> None,
                  last_token_count |-> token_count]
        Printed(r) ==
            IF ~r.none
            THEN [quiet EXCEPT !.printed = TRUE, !.via = "pretty", !.text = r.text,
                               !.field = r.field, !.content = r.content]
            ELSE [quiet EXCEPT !.printed = TRUE, !.via = "json",
                               !.text = dumps(obj_dict)]
        Handled(n) ==
            IF n.exc THEN [quiet EXCEPT !.exc = TRUE]
            ELSE IF n.msg_type = <<"token_count">>
            THEN [quiet EXCEPT !.last_token_count = StoreTokenCount(token_count, obj_dict)]
            ELSE IF n.msg_type # <<>> /\ n.msg_type \in hide THEN quiet
            ELSE Printed(_format_msg_pretty(n.msg_type, n.payload, n.outer_type))
    IN  Handled(_normalize_event(obj_dict))

----------------------------------------------------------------------------
(* claude.py: pretty_format_json *)

\* str(n), for the numbers a run reaches
DecimalDigits == <<"1", "2", "3", "4", "5", "6", "7", "8", "9">>
str(n) == DecimalDigits[n]

\* f"#{self.message_counter}"
CounterText(n) == <<"#", str(n)>>

\* text.split(c), for a single character c
RECURSIVE SplitOn(_, _, _)
SplitOn(text, c, cur) ==
    IF text = <<>> THEN <<cur>>
    ELSE IF Head(text) = c THEN <<cur>> \o SplitOn(Tail(text), c, <<>>)
    ELSE SplitOn(Tail(text), c, Append(cur, Head(text)))

\* text.split('\n')
split_lines(text) == SplitOn(text, NL, <<>>)

\* lines[:n], for n >= 0
FirstLines(lines, n) == SubSeq(lines, 1, IF n < Len(lines) THEN n ELSE Len(lines))

TruncatedMark == "[Truncated...]"

\* int(os.environ.get("CLAUDE_USER_MESSAGE_PRETTY_TRUNCATE", "4")) with the variable unset
DefaultTruncate == 4

\* A truncation that leaves every text whole
KeepWhole(text_content, limit) == text_content

\* The user-message truncation (limit is self.user_message_truncate):
\* text_content after lines 345-349
Truncate(text_content, limit) ==
    LET Cut(lines) ==
            IF limit # -1 /\ Len(lines) > limit
            THEN JoinLines(FirstLines(lines, limit)) \o <<NL, TruncatedMark>>
            ELSE text_content
    IN  Cut(split_lines(text_content))

\* for item in content_list raises TypeError for a number, a boolean and None
IterRaises(x) == x.t = "lit"

\* The first item of content_list that is a dict whose type is in kinds,
\* None when there is none (a string or a dict iterates over no dict)
RECURSIVE FirstOfType(_, _)
FirstOfType(elems, kinds) ==
    IF elems = <<>> THEN None
    ELSE IF IsDict(Head(elems)) /\ Get(Head(elems), <<"type">>) \in kinds THEN Head(elems)
    ELSE FirstOfType(Tail(elems), kinds)

FirstItem(content_list, kinds) ==
    IF IsList(content_list) THEN FirstOfType(content_list.v, kinds) ELSE None

\* {"type": t, "datetime": now, "counter": "#n"}
ClaudeHeader(t, n) ==
    Obj(<< <<<<"type">>, Str(t)>>, <<<<"datetime">>, Str(<<now>>)>>,
           <<<<"counter">>, Str(CounterText(n))>> >>)

\* What pretty_format_json returns: ret is the returned text; rendered tells
\* whether the renderer built it (it is the unchanged line otherwise); field,
\* shown and original record the label, the text displayed and the text
\* extracted from the event ("" and None when the event has no such text).
ClaudeRaw(json_line, counter) ==
    [message_counter |-> counter, ret |-> json_line, rendered |-> FALSE,
     field |-> "", shown |-> None, original |-> None]

ClaudeBlockOrInline(header, field, shown, original, counter) ==
    IF InNL(shown)
    THEN [message_counter |-> counter, ret |-> BlockText(header, field, shown.v),
          rendered |-> TRUE, field |-> field, shown |-> shown, original |-> original]
    ELSE [message_counter |-> counter, ret |-> dumps(Put(header, <<field>>, shown)),
          rendered |-> TRUE, field |-> field, shown |-> shown, original |-> original]

\* {k: v for k, v in tool_input.items() if k != "prompt"}
RECURSIVE WithoutKey(_, _)
WithoutKey(items, k) ==
    IF items = <<>> THEN <<>>
    ELSE (IF Head(items)[1] = k THEN <<>> ELSE <<Head(items)>>) \o WithoutKey(Tail(items), k)

\* A merge that leaves the fields of the event behind
MergeNothing(d, items) == d

\* {"datetime": now, "counter": "#n", **data}
RECURSIVE Merge(_, _)
Merge(d, items) ==
    IF items = <<>> THEN d ELSE Merge(Put(d, Head(items)[1], Head(items)[2]), Tail(items))

\* The branch for type == "user"
ClaudeUser(json_line, data, n, limit) ==
    LET Rendered(message, content_list, text_content) ==
            IF ~IsDict(message) \/ IterRaises(content_list) THEN ClaudeRaw(json_line, n)
            ELSE IF limit # -1 /\ ~IsStr(text_content) THEN ClaudeRaw(json_line, n)
            ELSE IF InRaises(text_content) THEN ClaudeRaw(json_line, n)
            ELSE IF InNL(text_content) /\ ~IsStr(text_content) THEN ClaudeRaw(json_line, n)
            ELSE ClaudeBlockOrInline(ClaudeHeader(<<"user">>, n), "content",
                     IF IsStr(text_content)
                     THEN Str(Truncate(text_content.v, limit))
                     ELSE text_content,
                     text_content, n)
        OfItem(message, content_list, item) ==
            Rendered(message, content_list,
                     IF IsDict(item) THEN GetOr(item, <<"text">>, Str(<<>>)) ELSE Str(<<>>))
        OfContent(message, content_list) ==
            OfItem(message, content_list, FirstItem(content_list, {Str(<<"text">>)}))
        OfMessage(message) ==
            OfContent(message, GetOr(message, <<"content">>, Lst(<<>>)))
    IN  OfMessage(GetOr(data, <<"message">>, Obj(<<>>)))

\* The branch for type == "assistant"
ClaudeAssistant(json_line, data, n) ==
    LET simplified == ClaudeHeader(<<"assistant">>, n)
        ToolUse(name, tool_input, prompt_field) ==
            IF ~IsDict(tool_input) THEN ClaudeRaw(json_line, n)
            ELSE IF IsStr(prompt_field) /\ HasChar(prompt_field.v, NL)
            THEN [message_counter |-> n,
                  ret |-> BlockText(
                      Put(simplified, <<"tool_use">>,
                          Obj(<< <<<<"name">>, name>>,
                                 <<<<"input">>, Obj(WithoutKey(tool_input.v, <<"prompt">>))>> >>)),
                      "prompt", prompt_field.v),
                  rendered |-> TRUE, field |-> "prompt",
                  shown |-> prompt_field, original |-> prompt_field]
            ELSE [message_counter |-> n,
                  ret |-> dumps(Put(simplified, <<"tool_use">>,
                              Obj(<< <<<<"name">>, name>>, <<<<"input">>, tool_input>> >>))),
                  rendered |-> TRUE,
                  field |-> IF HasKey(tool_input, <<"prompt">>) THEN "prompt" ELSE "",
                  shown |-> IF HasKey(tool_input, <<"prompt">>) THEN prompt_field ELSE None,
                  original |-> IF HasKey(tool_input, <<"prompt">>) THEN prompt_field ELSE None]
        OfInput(name, tool_input) ==
            ToolUse(name, tool_input, GetOr(tool_input, <<"prompt">>, Str(<<>>)))
        Text(text_content) ==
            IF InRaises(text_content) THEN ClaudeRaw(json_line, n)
            ELSE IF InNL(text_content) /\ ~IsStr(text_content) THEN ClaudeRaw(json_line, n)
            ELSE ClaudeBlockOrInline(simplified, "content", text_content, text_content, n)
        OfItem(message, content_list, item) ==
            IF ~IsDict(message) \/ IterRaises(content_list) THEN ClaudeRaw(json_line, n)
            ELSE IF IsDict(item) /\ Get(item, <<"type">>) = Str(<<"tool_use">>)
            THEN OfInput(GetOr(item, <<"name">>, Str(<<>>)), GetOr(item, <<"input">>, Obj(<<>>)))
            ELSE Text(IF IsDict(item) THEN GetOr(item, <<"text">>, Str(<<>>)) ELSE Str(<<>>))
        OfContent(message, content_list) ==
            OfItem(message, content_list,
                   FirstItem(content_list, {Str(<<"text">>), Str(<<"tool_use">>)}))
        OfMessage(message) ==
            OfContent(message, GetOr(message, <<"content">>, Lst(<<>>)))
    IN  OfMessage(GetOr(data, <<"message">>, Obj(<<>>)))

\* The branch for every other type
ClaudeOther(json_line, data, n) ==
    LET base == Obj(<< <<<<"datetime">>, Str(<<now>>)>>,
                       <<<<"counter">>, Str(CounterText(n))>> >>)
        Flattened(flattened, nested_content) ==
            IF IsStr(nested_content) /\ HasChar(nested_content.v, NL)
            THEN [message_counter |-> n,
                  ret |-> BlockText(flattened, "content", nested_content.v),
                  rendered |-> TRUE, field |-> "content",
                  shown |-> nested_content, original |-> nested_content]
            ELSE [message_counter |-> n,
                  ret |-> dumps(Put(flattened, <<"content">>, nested_content)),
                  rendered |-> TRUE, field |-> "content",
                  shown |-> nested_content, original |-> nested_content]
        Flatten(nested_item) ==
            Flattened(Put(IF HasKey(nested_item, <<"tool_use_id">>)
                          THEN Put(base, <<"tool_use_id">>, Get(nested_item, <<"tool_use_id">>))
                          ELSE base,
                          <<"type">>, Get(nested_item, <<"type">>)),
                      GetOr(nested_item, <<"content">>, Str(<<>>)))
        Whole(output, result) ==
            IF HasKey(output, <<"result">>) /\ IsStr(result) /\ HasChar(result.v, NL)
            THEN [message_counter |-> n,
                  ret |-> BlockText(Obj(WithoutKey(output.v, <<"result">>)), "result", result.v),
                  rendered |-> TRUE, field |-> "result", shown |-> result, original |-> result]
            ELSE [message_counter |-> n, ret |-> dumps(output), rendered |-> TRUE,
                  field |-> IF HasKey(output, <<"result">>) /\ IsStr(result) THEN "result" ELSE "",
                  shown |-> IF HasKey(output, <<"result">>) /\ IsStr(result) THEN result ELSE None,
                  original |-> IF HasKey(output, <<"result">>) /\ IsStr(result) THEN result ELSE None]
        Merged(output) == Whole(output, Get(output, <<"result">>))
        OfItem(message, nested_item) ==
            IF ~IsDict(message) THEN ClaudeRaw(json_line, n)
            ELSE IF IsDict(nested_item) /\ Get(nested_item, <<"type">>) = Str(<<"tool_result">>)
            THEN Flatten(nested_item)
            ELSE Merged(Merge(base, data.v))
        OfContent(message, content_list) ==
            OfItem(message, IF IsList(content_list) /\ content_list.v # <<>>
                            THEN content_list.v[1] ELSE None)
        OfMessage(message) ==
            OfContent(message, GetOr(message, <<"content">>, Lst(<<>>)))
    IN  OfMessage(GetOr(data, <<"message">>, Obj(<<>>)))

\* pretty_format_json(json_line), for a service whose message_counter is counter
pretty_format_json(json_line, counter, limit) ==
    LET Formatted(data, n) ==
            IF ~IsDict(data) THEN ClaudeRaw(json_line, n)
            ELSE IF Get(data, <<"type">>) = Str(<<"user">>)
            THEN ClaudeUser(json_line, data, n, limit)
            ELSE IF Get(data, <<"type">>) = Str(<<"assistant">>)
            THEN ClaudeAssistant(json_line, data, n)
            ELSE ClaudeOther(json_line, data, n)
        Loaded(parsed) ==
            IF ~parsed.ok THEN ClaudeRaw(json_line, counter)
            ELSE Formatted(parsed.val, counter + 1)
    IN  Loaded(loads(json_line))

----------------------------------------------------------------------------
(* gemini.py: field extraction and the renderer *)

\* GeminiService._first_nonempty_str(*values): blank strings are passed over
RECURSIVE gemini_first_nonempty_str(_)
gemini_first_nonempty_str(values) ==
    IF values = <<>> THEN <<>>
    ELSE IF IsStr(Head(values)) /\ strip(Head(values).v) # <<>> THEN Head(values).v
    ELSE gemini_first_nonempty_str(Tail(values))

\* The text of one entry of a content array, <<>> when it has none
GeminiEntryText(entry) ==
    LET IfText(text_val) ==
            IF IsStr(text_val) /\ strip(text_val.v) # <<>> THEN <<text_val.v>> ELSE <<>>
    IN  IF IsDict(entry)
        THEN IfText(Or(Get(entry, <<"text">>),
                    Or(Get(entry, <<"response">>), Get(entry, <<"output">>))))
        ELSE IfText(entry)

RECURSIVE GeminiParts(_)
GeminiParts(entries) ==
    IF entries = <<>> THEN <<>>
    ELSE GeminiEntryText(Head(entries)) \o GeminiParts(Tail(entries))

\* GeminiService._extract_content_text(payload)
gemini_extract_content_text(payload) ==
    LET common == gemini_first_nonempty_str(<<
                      Get(payload, <<"response">>),
                      Get(payload, <<"message">>),
                      Get(payload, <<"output">>),
                      IF IsStr(Get(payload, <<"result">>))
                      THEN Get(payload, <<"result">>) ELSE Str(<<>>),
                      Get(payload, <<"text">>) >>)
        Joined(parts) == IF parts # <<>> THEN JoinLines(parts) ELSE common
        Content(content_val) ==
            IF IsList(content_val) THEN Joined(GeminiParts(content_val.v))
            ELSE IF IsStr(content_val) THEN content_val.v
            ELSE common
    IN  IF ~IsDict(payload) THEN <<>>
        ELSE Content(Get(payload, <<"content">>))

\* repr(x): strings in single quotes, dicts and lists with their items
RECURSIVE PyRepr(_)
PyRepr(x) ==
    LET Item(it) == <<SQ>> \o it[1] \o <<SQ, COLON, SP>> \o PyRepr(it[2])
        RECURSIVE Items(_, _)
        Items(items, i) ==
            IF i > Len(items) THEN <<>>
            ELSE (IF i > 1 THEN <<COMMA, SP>> ELSE <<>>) \o Item(items[i]) \o Items(items, i + 1)
        RECURSIVE Elems(_, _)
        Elems(elems, i) ==
            IF i > Len(elems) THEN <<>>
            ELSE (IF i > 1 THEN <<COMMA, SP>> ELSE <<>>) \o PyRepr(elems[i]) \o Elems(elems, i + 1)
    IN  CASE x.t = "str" -> <<SQ>> \o x.v \o <<SQ>>
          [] x.t = "obj" -> <<LB>> \o Items(x.v, 1) \o <<RB>>
          [] x.t = "list" -> <<LSQ>> \o Elems(x.v, 1) \o <<RSQ>>
          [] x = Lit("true") -> <<"True">>
          [] x = Lit("false") -> <<"False">>
          [] x = Lit("null") -> <<"None">>
          [] OTHER -> x.v

\* str(x): a string is itself, any other value is its repr
PyStr(x) == IF x.t = "str" THEN x.v ELSE PyRepr(x)

\* copy_if_present(key, dest)
CopyIfPresent(header, payload, key, dest) ==
    IF Get(payload, key) \notin {None, Str(<<>>)}
    THEN Put(header, dest, Get(payload, key)) ELSE header

\* The header after the seven copy_if_present calls and the delta flag
GeminiHeader(msg_type, payload) ==
    LET h0 == Header2(msg_type)
        h1 == CopyIfPresent(h0, payload, <<"role">>, <<"role">>)
        h2 == CopyIfPresent(h1, payload, <<"status">>, <<"status">>)
        h3 == CopyIfPresent(h2, payload, <<"tool_name">>, <<"tool">>)
        h4 == CopyIfPresent(h3, payload, <<"tool_id">>, <<"tool_id">>)
        h5 == CopyIfPresent(h4, payload, <<"timestamp">>, <<"timestamp">>)
        h6 == CopyIfPresent(h5, payload, <<"session_id">>, <<"session_id">>)
        h7 == CopyIfPresent(h6, payload, <<"model">>, <<"model">>)
    IN  IF Truthy(Get(payload, <<"delta">>)) THEN Put(h7, <<"delta">>, Lit("true")) ELSE h7

\* {k: payload.get(k) for k in ["session_id", "model"] if payload.get(k)}
InitSummary(payload) ==
    Obj((IF Truthy(Get(payload, <<"session_id">>))
         THEN << <<<<"session_id">>, Get(payload, <<"session_id">>)>> >> ELSE <<>>)
        \o (IF Truthy(Get(payload, <<"model">>))
            THEN << <<<<"model">>, Get(payload, <<"model">>)>> >> ELSE <<>>))

\* GeminiService._format_event_pretty(payload): the text returned; rendered
\* is FALSE when it is json.dumps of the payload, returned on an exception.
_format_event_pretty(payload) ==
    LET Returned(header, content) ==
            IF HasChar(content, NL)
            THEN [text |-> BlockText(header, "content", content), rendered |-> TRUE,
                  field |-> "content", content |-> content]
            ELSE IF content # <<>>
            THEN [text |-> dumps(Put(header, <<"content">>, Str(content))), rendered |-> TRUE,
                  field |-> "content", content |-> content]
            ELSE [text |-> dumps(header), rendered |-> TRUE, field |-> "", content |-> <<>>]
        \* if msg_type == "result" and not content
        Result(msg_type, header, content, stats) ==
            Returned(header,
                     IF msg_type = <<"result">> /\ content = <<>>
                        /\ (IsDict(stats) \/ IsList(stats))
                     THEN dumps(stats) ELSE content)
        \* if msg_type == "init" and not content
        InitEvent(msg_type, header, content, init_summary) ==
            Result(msg_type, header,
                   IF msg_type = <<"init">> /\ content = <<>> /\ init_summary.v # <<>>
                   THEN dumps(init_summary) ELSE content,
                   Get(payload, <<"stats">>))
        \* if msg_type == "tool_result" and not content
        ToolResult(msg_type, header, content) ==
            InitEvent(msg_type, header,
                      IF msg_type = <<"tool_result">> /\ content = <<>>
                      THEN gemini_first_nonempty_str(<<Get(payload, <<"output">>),
                                                       Get(payload, <<"result">>)>>)
                      ELSE content,
                      InitSummary(payload))
        \* if msg_type == "tool_use" and not content
        ToolUse(msg_type, header, content, tool_params) ==
            IF msg_type = <<"tool_use">> /\ content = <<>>
            THEN IF IsDict(tool_params) \/ IsList(tool_params)
                 THEN ToolResult(msg_type, Put(header, <<"parameters">>, tool_params),
                                 dumps(tool_params))
                 ELSE IF Truthy(tool_params)
                 THEN ToolResult(msg_type, header, PyStr(tool_params))
                 ELSE ToolResult(msg_type, header, content)
            ELSE ToolResult(msg_type, header, content)
        OfType(msg_type) ==
            ToolUse(msg_type, GeminiHeader(msg_type, payload),
                    gemini_extract_content_text(payload),
                    Or(Get(payload, <<"parameters">>),
                       Or(Get(payload, <<"tool_use">>), Get(payload, <<"input">>))))
        Stripped(typed) == OfType(IF typed # <<>> THEN typed ELSE <<"message">>)
    IN  IF ~IsDict(payload)
        THEN [text |-> dumps(payload), rendered |-> FALSE, field |-> "", content |-> <<>>]
        ELSE Stripped(strip(PyStr(
                 Or(Get(payload, <<"type">>),
                    Or(Get(payload, <<"event">>), Str(<<"message">>))))))

----------------------------------------------------------------------------
(* codex.py: run_codex, and gemini.py: run_gemini: the loops over the       *)
(* child's standard output                                                  *)

\* ch.lower(), for the words written with capitals in these runs
LowerChar(ch) ==
    CASE ch = "TOKEN_COUNT" -> "token_count"
      [] ch = "Turn_Diff" -> "turn_diff"
      [] ch = "Foo" -> "foo"
      [] OTHER -> ch

\* text.lower()
lower(text) == [i \in 1..Len(text) |-> LowerChar(text[i])]

\* The substring test of the raw-text routes, with two names only
RawSuppressedTwoNames(text) ==
    \/ Contains(lower(text), <<DQ, "token_count", DQ>>)
    \/ Contains(lower(text), <<DQ, "exec_command_output_delta", DQ>>)

\* '"token_count"' in low or '"exec_command_output_delta"' in low or '"turn_diff"' in low
RawSuppressed(text) ==
    \/ Contains(lower(text), <<DQ, "token_count", DQ>>)
    \/ Contains(lower(text), <<DQ, "exec_command_output_delta", DQ>>)
    \/ Contains(lower(text), <<DQ, "turn_diff", DQ>>)

\* [p.strip() for p in env_val.split(",") if p.strip()]
RECURSIVE StrippedParts(_)
StrippedParts(parts) ==
    IF parts = <<>> THEN {}
    ELSE (IF strip(Head(parts)) # <<>> THEN {strip(Head(parts))} ELSE {})
         \cup StrippedParts(Tail(parts))

\* A reading of a variable that takes its whole value for one name
EnvPartsWhole(env_val) == IF strip(env_val) = <<>> THEN {} ELSE {strip(env_val)}

EnvParts(env_val) ==
    IF env_val = <<>> THEN {} ELSE StrippedParts(SplitOn(env_val, COMMA, <<>>))

\* os.environ without the two variables
NoEnviron == [CODEX_HIDE_STREAM_TYPES |-> <<>>, JUNO_CODE_HIDE_STREAM_TYPES |-> <<>>]

\* A resolution that leaves the two variables unread
HideDefaultsOnly(env_hide_1, env_hide_2) == default_hidden

\* hide_types, from CODEX_HIDE_STREAM_TYPES and JUNO_CODE_HIDE_STREAM_TYPES
ResolveHideTypes(env_hide_1, env_hide_2) ==
    default_hidden \cup EnvParts(env_hide_1) \cup EnvParts(env_hide_2)

\* A loop that starts every line afresh
CombinedWithoutPending(pend, raw_line) == raw_line

\* combined = pending + raw_line
Combined(pend, raw_line) == pend \o raw_line

\* text.replace("\x7f", "\n")
ReplaceDel(text) == [i \in 1..Len(text) |-> IF text[i] = DEL THEN NL ELSE text[i]]

\* What print(text, end="" if text.endswith("\n") else "\n") writes before
\* its last line break
PrintedLine(text) == IF endswith(text, NL) THEN SubSeq(text, 1, Len(text) - 1) ELSE text

\* for raw_line in process.stdout: the lines of a text, line breaks kept
RECURSIVE LinesOf(_, _)
LinesOf(text, cur) ==
    LET CutAt(k) ==
            <<cur \o SubSeq(text, 1, k)>> \o LinesOf(SubSeq(text, k + 1, Len(text)), <<>>)
        Cut(breaks) ==
            IF breaks = {} THEN <<cur \o text>>
            ELSE CutAt(CHOOSE i \in breaks : \A j \in breaks : i <= j)
    IN  IF text = <<>> THEN (IF cur = <<>> THEN <<>> ELSE <<cur>>)
        ELSE Cut({ i \in 1..Len(text) : text[i] = NL })

\* The part of a run's state that printing and handling change
DrState ==
    [out |-> dr_out, last_token_count |-> last_token_count,
     seen |-> dr_seen, dropped |-> dr_dropped]

\* print(text)
PrintRaw(st, route, text) ==
    [st EXCEPT !.out = Append(@, [via |-> "raw", route |-> route, text |-> text, obj |-> None])]

\* The raw-text route of a part or of the tail: dropped by name, else print(text)
RawSpan(st, route, text) ==
    IF RawSuppressed(text)
    THEN [st EXCEPT !.dropped = Append(@, [route |-> route, text |-> text])]
    ELSE PrintRaw(st, route, text)

\* The raw-text route of a line or a prefix: dropped by name, else printed
\* with one line break at its end
RawLine(st, route, text) ==
    IF RawSuppressed(text)
    THEN [st EXCEPT !.dropped = Append(@, [route |-> route, text |-> text])]
    ELSE PrintRaw(st, route, PrintedLine(text))

\* handle_obj(sub) inside its try: on an exception the text takes the raw route
HandleDict(st, obj_dict, hide, route, text) ==
    LET Handled(h) ==
            IF h.exc THEN RawSpan(st, route, text)
            ELSE [st EXCEPT
                     !.seen = Append(@, obj_dict),
                     !.last_token_count = h.last_token_count,
                     !.out = IF h.printed
                             THEN Append(@, [via |-> h.via, route |-> "handle",
                                             text |-> h.text, obj |-> obj_dict])
                             ELSE @]
    IN  Handled(handle_obj(obj_dict, hide, st.last_token_count))

\* The body of "for part in parts" in run_codex
CodexPart(st, part, hide) ==
    LET Loaded(sub) ==
            IF sub.ok /\ IsDict(sub.val) THEN HandleDict(st, sub.val, hide, "part", part)
            ELSE RawSpan(st, "part", part)
    IN  Loaded(loads(part))

\* A loop over the parts of a line that takes the last part first
RECURSIVE CodexPartsLastFirst(_, _, _)
CodexPartsLastFirst(st, parts, hide) ==
    IF parts = <<>> THEN st
    ELSE CodexPart(CodexPartsLastFirst(st, Tail(parts), hide), Head(parts), hide)

RECURSIVE CodexParts(_, _, _)
CodexParts(st, parts, hide) ==
    IF parts = <<>> THEN st
    ELSE CodexParts(CodexPart(st, Head(parts), hide), Tail(parts), hide)

\* The body of "for raw_line in process.stdout" in run_codex: the state and
\* the pending text it leaves
CodexRead(st, pend, raw_line, hide) ==
    LET \* parts, pending = split_json_stream(combined), and what follows it
        Parted(st1, rest, res) ==
            IF res.objs # <<>>
            THEN [st |-> CodexParts(st1, res.objs, hide), pending |-> res.remainder]
            ELSE IF res.remainder # <<>>
            THEN [st |-> st1, pending |-> res.remainder]
            ELSE [st |-> RawLine(st1, "fallback", rest), pending |-> <<>>]
        FromBrace(st1, rest) == Parted(st1, rest, split_json_stream(rest))
        \* the prefix before the first brace, printed unless blank or suppressed
        Prefixed(combined, first_brace, prefix) ==
            FromBrace(IF first_brace > 0 /\ strip(prefix) # <<>>
                      THEN RawLine(st, "prefix", prefix) ELSE st,
                      IF first_brace > 0
                      THEN SubSeq(combined, first_brace + 1, Len(combined)) ELSE combined)
        Braced(combined, first_brace) ==
            Prefixed(combined, first_brace, SubSeq(combined, 1, first_brace))
        Line(combined) ==
            IF strip(combined) = <<>> THEN [st |-> st, pending |-> <<>>]
            ELSE IF ~HasChar(combined, LB) /\ ~HasChar(combined, RB)
            THEN [st |-> RawLine(st, "plain", combined), pending |-> <<>>]
            ELSE Braced(combined, find(combined, LB))
    IN  Line(Combined(pend, raw_line))

\* A run that throws its pending text away when the stream ends
CodexTailDiscards(st, pend, hide) == st

\* The flush of pending after the loop of run_codex
CodexTail(st, pend, hide) ==
    LET Loaded(tail_obj) ==
            IF tail_obj.ok
            THEN IF IsDict(tail_obj.val) THEN HandleDict(st, tail_obj.val, hide, "tail", pend)
                 ELSE PrintRaw(st, "tail", pend)
            ELSE RawSpan(st, "tail", pend)
    IN  IF strip(pend) = <<>> THEN st ELSE Loaded(loads(pend))

\* print(self._format_event_pretty(parsed))
GeminiEvent(st, parsed) ==
    LET Printed(formatted) ==
            [st EXCEPT
                !.seen = Append(@, parsed),
                !.out = Append(@, [via |-> IF formatted.rendered THEN "pretty" ELSE "json",
                                   route |-> "handle", text |-> formatted.text,
                                   obj |-> parsed])]
    IN  Printed(_format_event_pretty(parsed))

\* json.loads(text) and the print of the event inside their try, print(text)
\* on an exception
GeminiSpan(st, route, text) ==
    LET Loaded(parsed) ==
            IF parsed.ok THEN GeminiEvent(st, parsed.val) ELSE PrintRaw(st, route, text)
    IN  Loaded(loads(text))

RECURSIVE GeminiParts2(_, _)
GeminiParts2(st, parts) ==
    IF parts = <<>> THEN st
    ELSE GeminiParts2(GeminiSpan(st, "part", Head(parts)), Tail(parts))

\* The body of "for raw_line in process.stdout" in run_gemini
GeminiRead(st, pend, raw_line) ==
    LET Parted(combined, res) ==
            IF res.objs # <<>>
            THEN [st |-> GeminiParts2(st, res.objs), pending |-> res.remainder]
            ELSE IF res.remainder # <<>>
            THEN [st |-> st, pending |-> res.remainder]
            ELSE [st |-> PrintRaw(st, "fallback", PrintedLine(combined)),
                  pending |-> <<>>]
        Line(combined) ==
            IF strip(combined) = <<>> THEN [st |-> st, pending |-> <<>>]
            ELSE Parted(combined, gemini_split_json_stream(combined))
    IN  Line(ReplaceDel(Combined(pend, raw_line)))

\* The flush of pending after the loop of run_gemini
GeminiTail(st, pend) ==
    IF strip(pend) = <<>> THEN st ELSE GeminiSpan(st, "tail", pend)

DrIdle ==
    /\ dr_impl = "" /\ dr_items = <<>> /\ dr_named = {} /\ dr_lines = <<>>
    /\ dr_pc = "closed" /\ environ = NoEnviron /\ hide_types = {} /\ pending = <<>>
    /\ last_token_count = None /\ dr_out = <<>> /\ dr_seen = <<>> /\ dr_dropped = <<>>

\* One more line read by run_codex
CodexLine ==
    /\ pr_pc = "loop"
    /\ dr_impl = "codex" /\ dr_pc = "reading" /\ dr_lines # <<>>
    /\ \E r \in {CodexRead(DrState, pending, Head(dr_lines), hide_types)} :
          /\ pending' = r.pending
          /\ dr_out' = r.st.out
          /\ last_token_count' = r.st.last_token_count
          /\ dr_seen' = r.st.seen
          /\ dr_dropped' = r.st.dropped
    /\ dr_lines' = Tail(dr_lines)
    /\ UNCHANGED <<dr_impl, dr_items, dr_named, dr_pc, environ, hide_types>>
    /\ UNCHANGED <<ext_vars, rs_vars, rn_vars, user_message_truncate, cl_vars>>

\* The child's output ends: run_codex flushes pending
CodexEnd ==
    /\ pr_pc = "loop"
    /\ dr_impl = "codex" /\ dr_pc = "reading" /\ dr_lines = <<>>
    /\ \E st \in {CodexTail(DrState, pending, hide_types)} :
          /\ dr_out' = st.out
          /\ last_token_count' = st.last_token_count
          /\ dr_seen' = st.seen
          /\ dr_dropped' = st.dropped
    /\ dr_pc' = "closed"
    /\ UNCHANGED <<dr_impl, dr_items, dr_named, dr_lines, environ, hide_types, pending>>
    /\ UNCHANGED <<ext_vars, rs_vars, rn_vars, user_message_truncate, cl_vars>>

\* One more line read by run_gemini
GeminiLine ==
    /\ pr_pc = "loop"
    /\ dr_impl = "gemini" /\ dr_pc = "reading" /\ dr_lines # <<>>
    /\ \E r \in {GeminiRead(DrState, pending, Head(dr_lines))} :
          /\ pending' = r.pending
          /\ dr_out' = r.st.out
          /\ dr_seen' = r.st.seen
    /\ dr_lines' = Tail(dr_lines)
    /\ UNCHANGED <<dr_impl, dr_items, dr_named, dr_pc, environ, hide_types, last_token_count,
                   dr_dropped>>
    /\ UNCHANGED <<ext_vars, rs_vars, rn_vars, user_message_truncate, cl_vars>>

\* The child's output ends: run_gemini flushes pending
GeminiEnd ==
    /\ pr_pc = "loop"
    /\ dr_impl = "gemini" /\ dr_pc = "reading" /\ dr_lines = <<>>
    /\ \E st \in {GeminiTail(DrState, pending)} :
          /\ dr_out' = st.out
          /\ dr_seen' = st.seen
    /\ dr_pc' = "closed"
    /\ UNCHANGED <<dr_impl, dr_items, dr_named, dr_lines, environ, hide_types, pending,
                   last_token_count, dr_dropped>>
    /\ UNCHANGED <<ext_vars, rs_vars, rn_vars, user_message_truncate, cl_vars>>

----------------------------------------------------------------------------
(* The renderers on their own: one event is built and handed to the codex   *)
(* pipeline in each of its three schemas, or one line is handed to claude's *)
(* pretty_format_json.                                                      *)

\* Kinds: those _format_msg_pretty has a rule for, and one it has none for
RnKinds ==
    {<<"agent_message">>, <<"agent_reasoning">>, <<"reasoning">>, <<"message">>,
     <<"assistant_message">>, <<"assistant">>, <<"exec_command_end">>,
     <<"command_execution">>, <<"foo">>}

\* Where the payload holds its text: a key, a key of a nested dict, or the
\* text of an entry of the content array
RnPaths ==
    {<<"message">>, <<"text">>, <<"final">>, <<"reasoning_text">>, <<"result">>,
     <<"formatted_output">>, <<"aggregated_output">>, <<"output">>,
     <<"result", "message">>, <<"result", "text">>, <<"result", "output">>,
     <<"reasoning", "text">>, <<"content[]", "text">>}

\* The texts, with and without line breaks, quotes and backslashes, and
\* values that are no text
RnValues ==
    {Str(<<"hi">>), Str(<<"a", NL, "b">>), Str(<<"a", NL, "b", NL, "c">>), Str(<<>>),
     Str(<<"q", DQ, BS, NL, "z", LB>>), Lit("5"), None,
     Lst(<<Str(<<NL>>)>>), Lst(<<Str(<<"x">>)>>)}

\* The items that put value at path
FieldItems(path, value) ==
    IF Len(path) = 1 THEN << <<<<path[1]>>, value>> >>
    ELSE IF path[1] = "content[]"
    THEN << <<<<"content">>,
              Lst(<< Obj(<< <<<<"type">>, Str(<<"text">>)>>, <<<<path[2]>>, value>> >>) >>)>> >>
    ELSE << <<<<path[1]>>, Obj(<< <<<<path[2]>>, value>> >>)>> >>

\* The payload of an event of kind K
PayloadOf(K, items) ==
    Obj(<< <<<<"type">>, Str(K)>>, <<<<"status">>, Str(<<"ok">>)>> >> \o items)

\* {"id": "1", "msg": {"type": K, ...}}
Envelope(K, items) ==
    Obj(<< <<<<"id">>, Str(<<"1">>)>>, <<<<"msg">>, PayloadOf(K, items)>> >>)

\* {"type": "item.completed", "item": {"type": K, ...}}
ItemEvent(K, items) ==
    Obj(<< <<<<"type">>, Str(<<"item.completed">>)>>, <<<<"item">>, PayloadOf(K, items)>> >>)

\* {"type": K, ...}
FlatEvent(K, items) == PayloadOf(K, items)

\* Events of claude's stream, by shape
ClaudeShapes == {"user", "assistant", "tool_use", "tool_result", "result", "system"}

ClaudeEvent(shape, value) ==
    CASE shape \in {"user", "assistant"} ->
           Obj(<< <<<<"type">>, Str(<<shape>>)>>,
                  <<<<"message">>,
                    Obj(<< <<<<"role">>, Str(<<shape>>)>>,
                           <<<<"content">>,
                             Lst(<< Obj(<< <<<<"type">>, Str(<<"text">>)>>,
                                           <<<<"text">>, value>> >>) >>)>> >>)>> >>)
      [] shape = "tool_use" ->
           Obj(<< <<<<"type">>, Str(<<"assistant">>)>>,
                  <<<<"message">>,
                    Obj(<< <<<<"content">>,
                             Lst(<< Obj(<< <<<<"type">>, Str(<<"tool_use">>)>>,
                                           <<<<"name">>, Str(<<"Task">>)>>,
                                           <<<<"input">>,
                                             Obj(<< <<<<"description">>, Str(<<"d">>)>>,
                                                    <<<<"prompt">>, value>> >>)>> >>) >>)>> >>)>> >>)
      [] shape = "tool_result" ->
           Obj(<< <<<<"type">>, Str(<<"system">>)>>,
                  <<<<"message">>,
                    Obj(<< <<<<"content">>,
                             Lst(<< Obj(<< <<<<"type">>, Str(<<"tool_result">>)>>,
                                           <<<<"tool_use_id">>, Str(<<"t1">>)>>,
                                           <<<<"content">>, value>> >>) >>)>> >>)>> >>)
      [] shape = "result" ->
           Obj(<< <<<<"type">>, Str(<<"result">>)>>, <<<<"result">>, value>> >>)
      [] OTHER ->
           Obj(<< <<<<"type">>, Str(<<"system">>)>>, <<<<"subtype">>, value>> >>)

\* The values CLAUDE_USER_MESSAGE_PRETTY_TRUNCATE is given in these runs
TruncateSettings == {-1, 0, 2, DefaultTruncate}

\* What one rendering gave: whether anything was printed, whether the
\* renderer built it (the object or line is printed as it came otherwise), the
\* text printed, the label, the text displayed and the text extracted.
NotRendered ==
    [done |-> FALSE, printed |-> FALSE, rendered |-> FALSE, text |-> <<>>,
     field |-> "", shown |-> None, original |-> None]

\* No second field
NoMore == [path |-> <<>>, value |-> None]

\* The fields of the payload: value at path, and the second field when there
\* is one; two fields of the same nested dict are two keys of one dict
RnItems ==
    LET first == FieldItems(rn_path, rn_value)
        more == IF rn_more = NoMore THEN <<>> ELSE FieldItems(rn_more.path, rn_more.value)
    IN  IF more # <<>> /\ first[1][1] = more[1][1] /\ IsDict(first[1][2]) /\ IsDict(more[1][2])
        THEN << <<first[1][1], Obj(first[1][2].v \o more[1][2].v)>> >>
        ELSE first \o more

RnIdle ==
    /\ rn_service = "" /\ rn_kind = <<>> /\ rn_path = <<>> /\ rn_value = None
    /\ rn_envelope = NotRendered /\ rn_item = NotRendered /\ rn_flat = NotRendered
    /\ rn_line = <<>> /\ rn_claude = NotRendered /\ rn_more = NoMore

RnInit ==
    /\ RsIdle /\ DrIdle /\ ClIdle /\ ExtIdle
    /\ rn_envelope = NotRendered /\ rn_item = NotRendered /\ rn_flat = NotRendered
    /\ rn_claude = NotRendered /\ rn_more = NoMore
    /\ \/ /\ rn_service = "codex"
          /\ rn_kind \in RnKinds
          /\ rn_path \in RnPaths
          /\ rn_value \in RnValues
          /\ rn_line = <<>>
          /\ user_message_truncate = DefaultTruncate
       \/ /\ rn_service = "claude"
          /\ rn_kind = <<>> /\ rn_path = <<>>
          /\ rn_value \in RnValues
          /\ \E shape \in ClaudeShapes : rn_line = dumps(ClaudeEvent(shape, rn_value))
          /\ user_message_truncate \in TruncateSettings

\* One object through handle_obj, with the default suppressed set
CodexRendering(obj_dict) ==
    LET h == handle_obj(obj_dict, default_hidden, None)
    IN  [done |-> TRUE, printed |-> h.printed, rendered |-> h.via = "pretty",
         text |-> h.text, field |-> h.field, shown |-> h.content, original |-> h.content]

RenderEnvelope ==
    /\ rn_service = "codex" /\ ~rn_envelope.done
    /\ rn_envelope' = CodexRendering(Envelope(rn_kind, RnItems))
    /\ UNCHANGED <<ext_vars, rs_vars, rn_service, rn_kind, rn_path, rn_value, rn_item, rn_flat,
                   rn_line, rn_claude, rn_more, user_message_truncate, dr_vars, cl_vars>>

RenderItem ==
    /\ rn_service = "codex" /\ ~rn_item.done
    /\ rn_item' = CodexRendering(ItemEvent(rn_kind, RnItems))
    /\ UNCHANGED <<ext_vars, rs_vars, rn_service, rn_kind, rn_path, rn_value, rn_envelope, rn_flat,
                   rn_line, rn_claude, rn_more, user_message_truncate, dr_vars, cl_vars>>

RenderFlat ==
    /\ rn_service = "codex" /\ ~rn_flat.done
    /\ rn_flat' = CodexRendering(FlatEvent(rn_kind, RnItems))
    /\ UNCHANGED <<ext_vars, rs_vars, rn_service, rn_kind, rn_path, rn_value, rn_envelope, rn_item,
                   rn_line, rn_claude, rn_more, user_message_truncate, dr_vars, cl_vars>>

\* One line through pretty_format_json, the first of its service
RenderClaude ==
    /\ rn_service = "claude" /\ ~rn_claude.done
    /\ \E r \in {pretty_format_json(rn_line, 0, user_message_truncate)} :
          rn_claude' = [done |-> TRUE, printed |-> r.ret # <<>>, rendered |-> r.rendered,
                        text |-> r.ret, field |-> r.field, shown |-> r.shown,
                        original |-> r.original]
    /\ UNCHANGED <<ext_vars, rs_vars, rn_service, rn_kind, rn_path, rn_value, rn_envelope, rn_item,
                   rn_flat, rn_line, rn_more, user_message_truncate, dr_vars, cl_vars>>

RnNext == RenderEnvelope \/ RenderItem \/ RenderFlat \/ RenderClaude

SpecRender == RnInit /\ [][RnNext]_vars

\* The first physical line of a text, and what follows its line break
LineEnd(text) ==
    IF HasChar(text, NL)
    THEN CHOOSE i \in 1..Len(text) : text[i] = NL /\ \A j \in 1..(i - 1) : text[j] # NL
    ELSE Len(text) + 1
FirstLine(text) == SubSeq(text, 1, LineEnd(text) - 1)
RestLines(text) == SubSeq(text, LineEnd(text) + 1, Len(text))

\* The events rendered so far in this run
RnRenderings == { r \in {rn_envelope, rn_item, rn_flat, rn_claude} : r.done /\ r.rendered }

\* The line is a user message of claude's stream
RnUserMessage == rn_service = "claude" /\ rn_line = dumps(ClaudeEvent("user", rn_value))

HasLineBreak(x) == IsStr(x) /\ HasChar(x.v, NL)

\* The text of a user message that runs over the line limit
OverLimit(x) ==
    /\ RnUserMessage
    /\ user_message_truncate # -1
    /\ IsStr(x)
    /\ Len(split_lines(x.v)) > user_message_truncate

GoodHeader(line) ==
    /\ ~HasChar(line, NL)
    /\ loads(line).ok
    /\ IsDict(loads(line).val)
    /\ HasKey(loads(line).val, <<"type">>)
    /\ dumps(loads(line).val) = line

\* The text is a field of the one-line event (of its tool_use input, for the
\* prompt of a tool call)
Inlined(line, field, x) ==
    LET header == loads(line).val
    IN  \/ field = ""
        \/ HasKey(header, <<field>>) /\ Get(header, <<field>>) = x
        \/ /\ field = "prompt"
           /\ IsDict(Get(header, <<"tool_use">>))
           /\ IsDict(Get(Get(header, <<"tool_use">>), <<"input">>))
           /\ Get(Get(Get(header, <<"tool_use">>), <<"input">>), <<"prompt">>) = x

\* The single-line versus multi-line rule, for the text x of the rendering r
LineRule(r, x) ==
    /\ GoodHeader(FirstLine(r.text))
    /\ HasLineBreak(x) =>
          /\ FirstLine(RestLines(r.text)) = <<r.field, COLON>>
          /\ RestLines(RestLines(r.text)) = x.v
    /\ ~HasLineBreak(x) =>
          /\ ~HasChar(r.text, NL)
          /\ Inlined(r.text, r.field, x)

HeaderRest(r) ==
    WithoutKey(WithoutKey(loads(FirstLine(r.text)).val.v, <<"type">>), <<"item_type">>)

\* C9: the envelope-schema event and the item-schema event of the same kind
\* and the same fields are both rendered or both printed unchanged; when
\* rendered, they have the same label, the same extracted text, the same form
\* (one line or block) and the same body, and their header lines differ in the
\* type and item_type keys alone.
C9_SchemaEquivalence ==
    (rn_envelope.done /\ rn_item.done) =>
        /\ rn_envelope.printed /\ rn_item.printed
        /\ rn_envelope.rendered = rn_item.rendered
        /\ rn_envelope.rendered =>
              /\ rn_envelope.field = rn_item.field
              /\ rn_envelope.original = rn_item.original
              /\ HasChar(rn_envelope.text, NL) = HasChar(rn_item.text, NL)
              /\ RestLines(rn_envelope.text) = RestLines(rn_item.text)
              /\ HeaderRest(rn_envelope) = HeaderRest(rn_item)
              /\ ~HasKey(loads(FirstLine(rn_envelope.text)).val, <<"item_type">>)

\* The line is an assistant message of claude's stream
RnAssistantMessage ==
    rn_service = "claude" /\ rn_line = dumps(ClaudeEvent("assistant", rn_value))

\* The message text a rendering displays: the body of its block, or the
\* content field of its one line
ContentShown(r) ==
    IF HasChar(r.text, NL) THEN RestLines(RestLines(r.text))
    ELSE Get(loads(r.text).val, <<"content">>).v

\* C18: pretty_format_json displays a user message whose text has more lines
\* than the limit N, N not -1, as its first N lines followed by the line
\* "[Truncated...]"; a user message of at most N lines, and any user message
\* when N is -1, as its text unchanged; an assistant message as its text
\* unchanged whatever N is.
C18_UserTruncation ==
    (rn_claude.done /\ IsStr(rn_value)) =>
        /\ RnUserMessage =>
              /\ rn_claude.rendered
              /\ ContentShown(rn_claude) =
                    IF /\ user_message_truncate # -1
                       /\ Len(split_lines(rn_value.v)) > user_message_truncate
                    THEN JoinLines(FirstLines(split_lines(rn_value.v), user_message_truncate))
                         \o <<NL, TruncatedMark>>
                    ELSE rn_value.v
        /\ RnAssistantMessage =>
              /\ rn_claude.rendered
              /\ ContentShown(rn_claude) = rn_value.v

\* A user message of three lines rendered under a limit of two: the block
\* shows the first two lines and the mark.
C18_Witness ==
    /\ rn_claude.done
    /\ RnUserMessage
    /\ user_message_truncate = 2
    /\ rn_value = Str(<<"a", NL, "b", NL, "c">>)
    /\ ContentShown(rn_claude) = <<"a", NL, "b", NL, TruncatedMark>>

\* The kind and payload the stated order of precedence gives an object
StatedNormal(obj_dict) ==
    IF IsDict(Get(obj_dict, <<"msg">>))
    THEN [kind |-> StripOrEmpty(Get(Get(obj_dict, <<"msg">>), <<"type">>)),
          payload |-> Get(obj_dict, <<"msg">>)]
    ELSE IF IsDict(Get(obj_dict, <<"item">>))
    THEN [kind |-> StripOrEmpty(Get(Get(obj_dict, <<"item">>), <<"type">>)),
          payload |-> Get(obj_dict, <<"item">>)]
    ELSE [kind |-> StripOrEmpty(Get(obj_dict, <<"type">>)), payload |-> obj_dict]

AsStated(obj_dict) ==
    LET Same(n, stated) ==
            ~n.exc /\ n.msg_type = stated.kind /\ n.payload = stated.payload
    IN  Same(_normalize_event(obj_dict), StatedNormal(obj_dict))

\* C16 as stated: for each event handed to handle_obj, _normalize_event gives
\* msg.type and msg when msg is an object, else item.type and item when item
\* is an object, else the object's own type and the object itself.
C16_NormalizerPrecedence ==
    /\ rn_envelope.done => AsStated(Envelope(rn_kind, RnItems))
    /\ rn_item.done => AsStated(ItemEvent(rn_kind, RnItems))
    /\ rn_flat.done => AsStated(FlatEvent(rn_kind, RnItems))

\* A message whose text sits under result.text and holds a line break,
\* rendered from both schemas: two blocks with the same body and two headers.
C9_Witness ==
    /\ rn_envelope.done /\ rn_item.done
    /\ rn_kind = <<"message">>
    /\ rn_path = <<"result", "text">>
    /\ rn_envelope.rendered
    /\ rn_envelope.original = Str(<<"a", NL, "b">>)
    /\ RestLines(RestLines(rn_item.text)) = <<"a", NL, "b">>
    /\ FirstLine(rn_envelope.text) # FirstLine(rn_item.text)

----------------------------------------------------------------------------
(* run_codex on a child's output, line after line: events of the three      *)
(* schemas, of kinds suppressed by default, by the environment or not at    *)
(* all, and lines that are no JSON.                                         *)

MaxItems == 2

\* An event the child writes, and a line of other text
EventItem(kind, val, layout) ==
    [event |-> TRUE, kind |-> kind, val |-> val, text |-> DumpsLay(val, layout)]
RawItem(text) == [event |-> FALSE, kind |-> <<>>, val |-> None, text |-> text]

CodexItems ==
    { EventItem(<<"token_count">>,
                Obj(<< <<<<"msg">>, Obj(<< <<<<"type">>, Str(<<"token_count">>)>>,
                                           <<<<"n">>, Lit("0")>> >>)>> >>), CompactLayout),
      EventItem(<<"token_count">>,
                Obj(<< <<<<"type">>, Str(<<SP, "token_count", SP>>)>>,
                       <<<<"n">>, Lit("5")>> >>), CompactLayout),
      EventItem(<<"turn_diff">>, ItemEvent(<<"turn_diff">>, <<>>), CompactLayout),
      EventItem(<<"foo">>, Envelope(<<"foo">>, <<>>), CompactLayout),
      EventItem(<<"foo">>, ItemEvent(<<"foo">>, <<>>), CompactLayout),
      EventItem(<<"foo">>, FlatEvent(<<"foo">>, <<>>), CompactLayout),
      EventItem(<<"agent_message">>,
                Envelope(<<"agent_message">>, FieldItems(<<"message">>, Str(<<"hi">>))),
                CompactLayout),
      RawItem(<<LB, DQ, "type", DQ, COLON, DQ, "TOKEN_COUNT", DQ, COMMA, RB>>),
      RawItem(<<LB, DQ, "type", DQ, COLON, DQ, "foo", DQ, COMMA, RB>>),
      RawItem(<<LB, DQ, "msg", DQ, COLON, LB, DQ, "type", DQ, COLON, DQ, "turn_diff", DQ>>),
      RawItem(<<"note", SP, DQ, "exec_command_output_delta", DQ>>),
      RawItem(<<"log", SP, DQ, "foo", DQ, SP, LB, DQ, "k", DQ, COLON, DQ, "v", DQ, RB>>) }

\* The two environment variables, and the kinds they name
CodexEnvs ==
    { [env_hide_1 |-> <<>>, env_hide_2 |-> <<>>, named |-> {}],
      [env_hide_1 |-> <<"foo">>, env_hide_2 |-> <<>>, named |-> {<<"foo">>}],
      [env_hide_1 |-> <<>>, env_hide_2 |-> <<SP, "foo", SP, COMMA, COMMA, "bar">>,
       named |-> {<<"foo">>, <<"bar">>}] }

ItemTexts(items) == [i \in 1..Len(items) |-> items[i].text]

DrReading ==
    /\ user_message_truncate = DefaultTruncate
    /\ dr_pc = "reading"
    /\ pending = <<>>
    /\ last_token_count = None
    /\ dr_out = <<>> /\ dr_seen = <<>> /\ dr_dropped = <<>>

DrStart == RsIdle /\ RnIdle /\ ClIdle /\ ExtIdle /\ DrReading

CxInit ==
    /\ DrStart
    /\ dr_impl = "codex"
    /\ dr_items \in SeqsUpTo(CodexItems, MaxItems)
    /\ \E env \in CodexEnvs :
          /\ dr_named = env.named
          /\ environ = [CODEX_HIDE_STREAM_TYPES |-> env.env_hide_1,
                        JUNO_CODE_HIDE_STREAM_TYPES |-> env.env_hide_2]
          /\ hide_types = ResolveHideTypes(env.env_hide_1, env.env_hide_2)
    /\ dr_lines = LinesOf(StreamOf(ItemTexts(dr_items), <<NL>>), <<>>)

CxNext == CodexLine \/ CodexEnd

SpecCodex == CxInit /\ [][CxNext]_vars

\* The events of the child whose kind is in the configured suppressed set
HiddenItems ==
    { j \in 1..Len(dr_items) :
        dr_items[j].event /\ dr_items[j].kind \in (default_hidden \cup dr_named) }

\* C3: whatever the lines and whichever schema carries it, an event whose kind
\* is suppressed by default or named in one of the two environment variables
\* is never printed: neither rendered, nor as its JSON, nor as raw text.
C3_ParsedSuppression ==
    \A i \in 1..Len(dr_out) : \A j \in HiddenItems :
        /\ dr_out[i].obj # dr_items[j].val
        /\ dr_out[i].text # dr_items[j].text

\* A finished run over an item-schema event of a kind the environment names
\* and an agent_message: both were handled, the second alone was printed.
C3_Witness ==
    /\ dr_pc = "closed"
    /\ dr_named = {<<"foo">>, <<"bar">>}
    /\ Len(dr_items) = 2
    /\ dr_items[1].val = ItemEvent(<<"foo">>, <<>>)
    /\ dr_seen = <<dr_items[1].val, dr_items[2].val>>
    /\ Len(dr_out) = 1
    /\ dr_out[1].obj = dr_items[2].val
    /\ dr_out[1].via = "pretty"

QuotedName(kind) == <<DQ>> \o kind \o <<DQ>>

\* The printed texts that took a raw-text route and do not parse as JSON
FailedSpans ==
    { i \in 1..Len(dr_out) : dr_out[i].via = "raw" /\ ~loads(dr_out[i].text).ok }

IsTokenCount(obj) ==
    \E j \in 1..Len(dr_items) :
        dr_items[j].event /\ dr_items[j].val = obj /\ dr_items[j].kind = <<"token_count">>

TokenCountsSeen == SelectSeq(dr_seen, IsTokenCount)

\* C5: last_token_count holds the most recent token_count event handled, None
\* before the first; such an event prints nothing, whatever the environment
\* says, and what the cell holds is never printed, the tail flush included.
C5_TokenCount ==
    /\ last_token_count =
          IF TokenCountsSeen = <<>> THEN None
          ELSE TokenCountsSeen[Len(TokenCountsSeen)]
    /\ \A i \in 1..Len(dr_out) :
          /\ ~IsTokenCount(dr_out[i].obj)
          /\ last_token_count # None =>
                /\ dr_out[i].text # dumps(last_token_count)
                /\ dr_out[i].text # DumpsLay(last_token_count, CompactLayout)

\* A finished run over two token_count events of two schemas: the cell holds
\* the second, nothing was printed.
C5_Witness ==
    /\ dr_pc = "closed"
    /\ Len(TokenCountsSeen) = 2
    /\ TokenCountsSeen[1] # TokenCountsSeen[2]
    /\ last_token_count = TokenCountsSeen[2]
    /\ dr_out = <<>>

----------------------------------------------------------------------------
(* run_codex and run_gemini on a stream of complete events that reaches     *)
(* them cut into lines in several ways: one event a line, all events on one *)
(* line, each event spread over many lines.                                 *)

MaxEvents == 2

ReadEvents ==
    { Obj(<< <<<<"type">>, Str(<<"agent_message">>)>>, <<<<"message">>, Str(<<"hi">>)>> >>),
      Obj(<< <<<<"type">>, Str(<<"reasoning">>)>>, <<<<"text">>, Str(<<NL, RB>>)>> >>),
      Obj(<< <<<<"type">>, Str(<<"token_count">>)>> >>),
      Obj(<< <<<<"msg">>, Obj(<< <<<<"type">>, Str(<<"foo">>)>> >>)>> >>) }

\* How the child writes its events: the layout of each, and what follows it
ReadLayouts ==
    { [layout |-> CompactLayout, sep |-> <<NL>>],
      [layout |-> CompactLayout, sep |-> <<>>],
      [layout |-> PyLayout, sep |-> <<SP>>],
      [layout |-> IndentLayout, sep |-> <<NL>>],
      [layout |-> IndentLayout, sep |-> <<>>] }

RdInit ==
    /\ DrStart
    /\ dr_impl \in {"codex", "gemini"}
    /\ dr_named = {}
    /\ environ = NoEnviron
    /\ hide_types = IF dr_impl = "codex" THEN ResolveHideTypes(<<>>, <<>>) ELSE {}
    /\ \E events \in SeqsUpTo(ReadEvents, MaxEvents) : \E lay \in ReadLayouts :
          /\ dr_items = [i \in 1..Len(events) |-> EventItem(<<>>, events[i], lay.layout)]
          /\ dr_lines = LinesOf(StreamOf(ItemTexts(dr_items), lay.sep), <<>>)

RdNext == CodexLine \/ CodexEnd \/ GeminiLine \/ GeminiEnd

SpecReads == RdInit /\ [][RdNext]_vars

\* What the driver prints when each event is handed to it whole, in order
RECURSIVE Reference(_, _)
Reference(st, items) ==
    IF items = <<>> THEN st
    ELSE Reference(
             IF dr_impl = "codex"
             THEN HandleDict(st, Head(items).val, hide_types, "part", Head(items).text)
             ELSE GeminiEvent(st, Head(items).val),
             Tail(items))

ReferenceOut ==
    Reference([out |-> <<>>, last_token_count |-> None, seen |-> <<>>, dropped |-> <<>>],
              dr_items).out

\* C10: however a stream of complete events is cut into reads, the driver
\* prints what it prints when each event is handed to it whole: at every
\* moment a prefix of that (nothing for an event still incomplete, nothing
\* twice), and all of it once the stream has ended.
C10_ReadIndependence ==
    /\ IsPrefix(dr_out, ReferenceOut)
    /\ dr_pc = "closed" => dr_out = ReferenceOut

\* A finished run over two events that each came spread over several lines:
\* two texts printed, the first a block.
C10_Witness ==
    /\ dr_pc = "closed"
    /\ Len(dr_items) = 2
    /\ HasChar(dr_items[1].text, NL) /\ HasChar(dr_items[2].text, NL)
    /\ Len(dr_out) = 2
    /\ HasChar(dr_out[1].text, NL)

\* The events of the child that the driver has no reason to keep quiet, in
\* the order the child wrote them: run_gemini suppresses none, run_codex
\* those whose kind is token_count or in hide_types
Unsuppressed(item) ==
    ~(dr_impl = "codex" /\ _normalize_event(item.val).msg_type \in hide_types)

UnsuppressedVals ==
    LET kept == SelectSeq(dr_items, Unsuppressed)
    IN  [i \in 1..Len(kept) |-> kept[i].val]

\* The events behind the texts printed so far, in the order of printing
PrintedVals == [i \in 1..Len(dr_out) |-> dr_out[i].obj]

----------------------------------------------------------------------------
(* run_claude on a child's output, line after line                          *)

MaxLines == 3

ClaudeLines ==
    { dumps(Obj(<< <<<<"type">>, Str(<<"system">>)>> >>)),
      dumps(ClaudeEvent("user", Str(<<"hi">>))),
      dumps(Obj(<< <<<<"type">>, Str(<<"user">>)>>, <<<<"message">>, Str(<<"hi">>)>> >>)),
      dumps(Obj(<< <<<<"type">>, Str(<<"x">>)>>, <<<<"counter">>, Str(<<"#", "9">>)>> >>)),
      <<"5">>,
      <<"not json">>,
      <<>> }

ClInit ==
    /\ RsIdle /\ RnIdle /\ DrIdle /\ ExtIdle
    /\ user_message_truncate = DefaultTruncate
    /\ cl_pretty \in BOOLEAN
    /\ message_counter = 0
    /\ cl_out = <<>>
    /\ \E lines \in SeqsUpTo(ClaudeLines, MaxLines) :
          cl_lines = [i \in 1..Len(lines) |-> Append(lines[i], NL)]

\* The body of "for line in process.stdout" in run_claude
ClaudeLine ==
    /\ pr_pc = "loop"
    /\ cl_lines # <<>>
    /\ IF cl_pretty
       THEN \E r \in {pretty_format_json(strip(Head(cl_lines)), message_counter,
                                         user_message_truncate)} :
               /\ message_counter' = r.message_counter
               /\ cl_out' = IF r.ret # <<>>
                            THEN Append(cl_out, [text |-> r.ret, rendered |-> r.rendered,
                                                 line |-> strip(Head(cl_lines))])
                            ELSE cl_out
       ELSE /\ cl_out' = Append(cl_out, [text |-> PrintedLine(Head(cl_lines)),
                                         rendered |-> FALSE,
                                         line |-> strip(Head(cl_lines))])
            /\ UNCHANGED message_counter
    /\ cl_lines' = Tail(cl_lines)
    /\ UNCHANGED <<cl_pretty, user_message_truncate, ext_vars, rs_vars, rn_vars, dr_vars>>

ClNext == ClaudeLine

SpecClaude == ClInit /\ [][ClNext]_vars

\* The rendered events printed so far, in order
ClRendered == SelectSeq(cl_out, LAMBDA e : e.rendered)

\* The counter written in the header line of a rendered event
CounterOf(e) == Get(loads(FirstLine(e.text)).val, <<"counter">>)

\* C6: the rendered events printed carry the counters #1, #2, ... in order,
\* without gap or repeat, and message_counter has advanced once for each of
\* them and for nothing else.
C6_CounterMonotonicity ==
    /\ \A i \in 1..Len(ClRendered) : CounterOf(ClRendered[i]) = Str(CounterText(i))
    /\ message_counter = Len(ClRendered)

----------------------------------------------------------------------------
(* The reassembler on its own: a child writes complete objects, the text    *)
(* is cut into chunks at any offsets, and each chunk is passed to the       *)
(* splitter together with the remainder of the call before.                 *)

MaxObjs == 2

\* Objects whose strings hold braces, escaped quotes and a final backslash.
RsValues ==
    { Obj(<< <<<<"k">>, Str(<<"v">>)>> >>),
      Obj(<< <<<<"k">>, Str(<<DQ, RB, LB>>)>> >>),
      Obj(<< <<<<"k">>, Obj(<< <<<<"j">>, Str(<<RB, BS>>)>> >>)>> >>),
      Obj(<< <<<<"type">>, Str(<<"x">>)>>,
             <<<<"text">>, Str(<<"a ", RB, " b ", LB, " c">>)>> >>) }

RsInit ==
    /\ rs_impl \in {"codex", "gemini"}
    /\ rs_sep \in {<<>>, <<NL>>}
    /\ \E vals \in SeqsUpTo(RsValues, MaxObjs) :
          /\ rs_objs = [i \in 1..Len(vals) |-> DumpsLay(vals[i], CompactLayout)]
          /\ rs_rest = StreamOf(rs_objs, rs_sep)
    /\ rs_pending = <<>>
    /\ rs_out = <<>>
    /\ rs_cut = FALSE
    /\ RnIdle /\ DrIdle /\ ClIdle /\ ExtIdle
    /\ user_message_truncate = DefaultTruncate

\* feed(chunk, pending): scan pending + chunk, keep the remainder
Feed ==
    \E k \in 1..Len(rs_rest) :
        \E res \in {Split(rs_impl, rs_pending \o SubSeq(rs_rest, 1, k))} :
            /\ rs_out' = rs_out \o res.objs
            /\ rs_pending' = res.remainder
            /\ rs_rest' = SubSeq(rs_rest, k + 1, Len(rs_rest))
            /\ rs_cut' = (rs_cut \/ (k < Len(rs_rest) /\ res.in_str))
            /\ UNCHANGED <<ext_vars, rs_impl, rs_objs, rs_sep, rn_vars, user_message_truncate, dr_vars, cl_vars>>

RsNext == Feed

SpecReassembler == RsInit /\ [][RsNext]_vars

\* C1: fed in order through the reassembler, whatever the cuts, the chunks
\* of a stream of complete objects give back exactly the objects written, in
\* order: never anything else on the way, and all of them at the end.
C1_Reassembly ==
    /\ IsPrefix(rs_out, rs_objs)
    /\ rs_rest = <<>> => rs_out = rs_objs

\* A finished run of several calls, one of them cut inside a string literal,
\* that has returned two objects, the first holding an escaped quote.
C1_Witness ==
    /\ rs_rest = <<>>
    /\ rs_cut
    /\ Len(rs_out) = 2
    /\ Contains(rs_out[1], <<BS, DQ, RB>>)

\* The object of the specification's example: {"type":"x","text":"a } b { c"}
C2Example ==
    <<LB, DQ, "type", DQ, COLON, DQ, "x", DQ, COMMA,
      DQ, "text", DQ, COLON, DQ, "a ", RB, " b ", LB, " c", DQ, RB>>

\* The number of characters fed so far, and of objects wholly fed
RsFedLen == Len(StreamOf(rs_objs, rs_sep)) - Len(rs_rest)
RsWhollyFed ==
    Cardinality({ i \in 1..Len(rs_objs) :
        Len(StreamOf(SubSeq(rs_objs, 1, i - 1), rs_sep)) + Len(rs_objs[i]) <= RsFedLen })

\* C2: braces and escaped quotes inside a string literal neither open nor
\* close an object: at every moment the objects returned are exactly the
\* objects wholly fed, no more (nothing is cut off at an embedded brace) and no
\* fewer, and the example object comes back as the one object it is.
C2_StringBraceSafety ==
    /\ Len(rs_out) = RsWhollyFed
    /\ \A i \in 1..Len(rs_out) : rs_objs[i] = C2Example => rs_out[i] = C2Example

\* The example object fed up to the closing brace inside its string: nothing
\* returned, the text so far carried as remainder.
C2_Witness ==
    /\ rs_objs = <<C2Example>>
    /\ rs_pending = SubSeq(C2Example, 1, 16)
    /\ rs_pending[16] = RB
    /\ rs_out = <<>>

----------------------------------------------------------------------------
(* run_codex, run_claude and run_gemini from the try that spawns the child  *)
(* to the return: the child writes a little and exits when it likes, an     *)
(* OSError or a KeyboardInterrupt may arrive wherever the driver stands.    *)
(* pr_pc is "try" before subprocess.Popen has returned, "loop" from there   *)
(* to the return of process.wait(), "stderr" after it, "handler_wait" in    *)
(* the process.wait() of the except KeyboardInterrupt clause, "done" after  *)
(* the return or the raise.                                                 *)

MaxWrites == 1
MaxInterrupts == 2

\* return 130, return 1
InterruptedCode == 130
ErrorCode == 1

\* What a child can exit with by itself, and what Popen reports for one
\* ended by the signal of terminate()
ExitStatuses == {0, 3}
TerminatedStatuses == {-15}

\* What the child has written on its stderr by the time it exits
ChildStderrs == {<<>>, <<"warn", SP, DQ, "token_count", DQ, NL>>}

\* What the child writes on its stdout
PrEvents ==
    { Obj(<< <<<<"type">>, Str(<<"agent_message">>)>>, <<<<"message">>, Str(<<"hi">>)>> >>),
      Obj(<< <<<<"type">>, Str(<<"token_count">>)>> >>) }

PrClaudeLines == { dumps(Obj(<< <<<<"type">>, Str(<<"system">>)>> >>)), <<"not json">> }

io_vars == <<rs_vars, rn_vars, user_message_truncate, dr_vars, cl_vars, ss_vars, rp_vars, ps_vars, sv_vars>>

PrInit ==
    /\ RsIdle /\ RnIdle /\ SsIdle /\ RpIdle /\ PsIdle /\ SvIdle
    /\ pr_impl \in {"codex", "claude", "gemini"}
    /\ pr_pc = "try"
    /\ process = [bound |-> FALSE, waited |-> FALSE, returncode |-> 0]
    /\ \E text \in ChildStderrs :
          child = [state |-> "none", status |-> 0, signalled |-> FALSE, stderr |-> text]
    /\ pr_result = [kind |-> "none", code |-> 0, exc |-> ""]
    /\ pr_interrupts = <<>> /\ pr_fault = "" /\ pr_stderr = <<>>
    /\ IF pr_impl = "claude"
       THEN /\ DrIdle
            /\ user_message_truncate = DefaultTruncate
            /\ cl_pretty \in BOOLEAN
            /\ message_counter = 0
            /\ cl_out = <<>>
            /\ \E lines \in SeqsUpTo(PrClaudeLines, MaxWrites) :
                  cl_lines = [i \in 1..Len(lines) |-> Append(lines[i], NL)]
       ELSE /\ ClIdle
            /\ DrReading
            /\ dr_impl = pr_impl
            /\ dr_named = {}
            /\ environ = NoEnviron
            /\ hide_types = IF dr_impl = "codex" THEN ResolveHideTypes(<<>>, <<>>) ELSE {}
            /\ \E events \in SeqsUpTo(PrEvents, MaxWrites) :
                  dr_items = [i \in 1..Len(events) |->
                                 EventItem(<<>>, events[i], CompactLayout)]
            /\ dr_lines = LinesOf(StreamOf(ItemTexts(dr_items), <<NL>>), <<>>)

\* The loop over process.stdout and the flush after it are over
LoopDone == IF pr_impl = "claude" THEN cl_lines = <<>> ELSE dr_pc = "closed"

\* The print calls on stdout so far
StdoutPrints == IF pr_impl = "claude" THEN Len(cl_out) ELSE Len(dr_out)

Returned(code) == [kind |-> "return", code |-> code, exc |-> ""]
Raised(exc) == [kind |-> "raise", code |-> 0, exc |-> exc]

\* print(text, file=sys.stderr)
PrintErr(from, text) ==
    Append(pr_stderr, [from |-> from, text |-> text, at |-> StdoutPrints])

\* Where the driver stands
PrPoint ==
    CASE pr_pc = "try" -> "spawn"
      [] pr_pc = "loop" /\ ~LoopDone -> "read"
      [] pr_pc = "loop" /\ LoopDone -> "wait"
      [] OTHER -> pr_pc

\* process = subprocess.Popen(cmd, ...)
Popen ==
    /\ pr_pc = "try"
    /\ process' = [process EXCEPT !.bound = TRUE]
    /\ child' = [child EXCEPT !.state = "running"]
    /\ pr_pc' = "loop"
    /\ UNCHANGED <<pr_impl, pr_result, pr_interrupts, pr_fault, pr_stderr, io_vars>>

\* except Exception as e: the child cannot be launched, or a read or a print
\* fails
OSError ==
    /\ pr_pc \in {"try", "loop", "stderr"}
    /\ pr_fault' = PrPoint
    /\ pr_stderr' = PrintErr("wrapper", <<"Error executing ", pr_impl>>)
    /\ pr_result' = Returned(ErrorCode)
    /\ pr_pc' = "done"
    /\ UNCHANGED <<pr_impl, process, child, pr_interrupts, io_vars>>

\* The child exits: by itself, or ended by the signal if it was sent one
ChildExits ==
    /\ child.state = "running"
    /\ \E status \in ExitStatuses \cup
                     (IF child.signalled THEN TerminatedStatuses ELSE {}) :
          child' = [child EXCEPT !.state = "exited", !.status = status]
    /\ UNCHANGED <<pr_impl, pr_pc, process, pr_result, pr_interrupts, pr_fault,
                   pr_stderr, io_vars>>

\* process.wait() after the loop returns
Wait ==
    /\ pr_pc = "loop" /\ LoopDone
    /\ child.state = "exited"
    /\ process' = [process EXCEPT !.waited = TRUE, !.returncode = child.status]
    /\ pr_pc' = "stderr"
    /\ UNCHANGED <<pr_impl, child, pr_result, pr_interrupts, pr_fault, pr_stderr, io_vars>>

\* A driver that surfaces the child's stderr whatever the exit status
SurfacesAlways(returncode, stderr_output) == stderr_output # <<>>

\* if process.stderr and process.returncode != 0: ... if stderr_output:
Surfaces(returncode, stderr_output) == returncode # 0 /\ stderr_output # <<>>

\* From the return of process.wait() to return process.returncode
Finish ==
    /\ pr_pc = "stderr"
    /\ pr_stderr' = IF Surfaces(process.returncode, child.stderr)
                    THEN PrintErr("child", child.stderr) ELSE pr_stderr
    /\ pr_result' = Returned(process.returncode)
    /\ pr_pc' = "done"
    /\ UNCHANGED <<pr_impl, process, child, pr_interrupts, pr_fault, io_vars>>

\* process.terminate()
terminate(c) == IF c.state = "running" THEN [c EXCEPT !.signalled = TRUE] ELSE c

\* except KeyboardInterrupt, up to its process.wait(): with process unbound,
\* run_codex and run_gemini catch the error of process.terminate() and
\* return 130, run_claude's "if process:" raises
KeyboardInterrupt ==
    /\ pr_pc \in {"try", "loop", "stderr"}
    /\ Len(pr_interrupts) < MaxInterrupts
    /\ pr_interrupts' = Append(pr_interrupts, [point |-> PrPoint, child |-> child.state])
    /\ pr_stderr' = PrintErr("wrapper", <<NL, "Interrupted by user">>)
    /\ IF process.bound
       THEN /\ child' = terminate(child)
            /\ pr_pc' = "handler_wait"
            /\ UNCHANGED pr_result
       ELSE /\ pr_result' = IF pr_impl = "claude" THEN Raised("UnboundLocalError")
                            ELSE Returned(InterruptedCode)
            /\ pr_pc' = "done"
            /\ UNCHANGED child
    /\ UNCHANGED <<pr_impl, process, pr_fault, io_vars>>

\* process.wait() of the except clause returns; return 130
HandlerWait ==
    /\ pr_pc = "handler_wait"
    /\ child.state = "exited"
    /\ process' = [process EXCEPT !.waited = TRUE, !.returncode = child.status]
    /\ pr_result' = Returned(InterruptedCode)
    /\ pr_pc' = "done"
    /\ UNCHANGED <<pr_impl, child, pr_interrupts, pr_fault, pr_stderr, io_vars>>

\* A KeyboardInterrupt inside the process.wait() of the except clause: no
\* clause of the try catches it
KeyboardInterruptInHandler ==
    /\ pr_pc = "handler_wait"
    /\ Len(pr_interrupts) < MaxInterrupts
    /\ pr_interrupts' = Append(pr_interrupts, [point |-> PrPoint, child |-> child.state])
    /\ pr_result' = Raised("KeyboardInterrupt")
    /\ pr_pc' = "done"
    /\ UNCHANGED <<pr_impl, process, child, pr_fault, pr_stderr, io_vars>>

PrNext ==
    \/ Popen \/ OSError \/ ChildExits
    \/ CodexLine \/ CodexEnd \/ GeminiLine \/ GeminiEnd \/ ClaudeLine
    \/ Wait \/ Finish
    \/ KeyboardInterrupt \/ HandlerWait \/ KeyboardInterruptInHandler

SpecRun == PrInit /\ [][PrNext]_vars

\* The driver was interrupted while the child had not exited
InterruptedBeforeExit ==
    pr_interrupts # <<>> /\ pr_interrupts[1].child # "exited"

\* C12 as stated: a run that ends returns; it returns 1 after a failed launch
\* or an I/O error, 130 when interrupted before the child has exited, the
\* child's own exit status when the child exited and nothing interrupted or
\* failed; and never anything but one of these three.
C12_ExitStatus ==
    pr_pc = "done" =>
        /\ pr_result.kind = "return"
        /\ pr_fault # "" => pr_result.code = ErrorCode
        /\ InterruptedBeforeExit => pr_result.code = InterruptedCode
        /\ (pr_fault = "" /\ pr_interrupts = <<>>) =>
              child.state = "exited" /\ pr_result.code = child.status
        /\ pr_result.code \in {child.status, InterruptedCode, ErrorCode}

\* C13 as stated: a run that ends after a KeyboardInterrupt, wherever it
\* arrived, leaves no child running: a child that was running has been sent
\* the signal and waited for, and the driver has returned a non-zero status.
C13_NoOrphan ==
    (pr_pc = "done" /\ pr_interrupts # <<>>) =>
        /\ child.state # "running"
        /\ child.state = "exited" => process.waited
        /\ \A i \in 1..Len(pr_interrupts) :
              pr_interrupts[i].child = "running" => child.signalled
        /\ pr_result.kind = "return"
        /\ pr_result.code # 0

\* The print calls on sys.stderr that carry the child's stderr
ChildStderrShown == { i \in 1..Len(pr_stderr) : pr_stderr[i].from = "child" }

\* C14: the child's stderr is printed only once the child has exited and been
\* waited for, with a non-zero status, after the last print on stdout (the
\* loop and its flush are over, nothing is printed on stdout afterwards), at
\* most once and as the child wrote it; after an exit with status 0 it is
\* never printed.
C14_StderrOrdering ==
    /\ Cardinality(ChildStderrShown) <= 1
    /\ \A i \in ChildStderrShown :
          /\ child.state = "exited" /\ process.waited
          /\ child.status # 0 /\ pr_result.code = child.status
          /\ LoopDone
          /\ pr_stderr[i].at = StdoutPrints
          /\ pr_stderr[i].text = child.stderr

\* A finished run whose child printed one event, wrote a warning that quotes
\* token_count on its stderr and exited with status 3: the warning was
\* printed whole, after the event.
C14_Witness ==
    /\ pr_pc = "done"
    /\ pr_result = Returned(3)
    /\ StdoutPrints = 1
    /\ Len(pr_stderr) = 1
    /\ pr_stderr[1] = [from |-> "child", at |-> 1,
                       text |-> <<"warn", SP, DQ, "token_count", DQ, NL>>]

----------------------------------------------------------------------------
(* The three drivers side by side, each over a short stream of whole events *)
(* written one a line: events of the three codex schemas, of known and      *)
(* unknown kinds, an empty object, events whose type is a number (one of    *)
(* them with a field that reads turn_diff), and for run_claude also a line  *)
(* that is no JSON.                                                         *)

MaxEmits == 2

DvEvents ==
    { EventItem(<<"agent_message">>,
                Envelope(<<"agent_message">>, FieldItems(<<"message">>, Str(<<"a", NL, "b">>))),
                CompactLayout),
      EventItem(<<"command_execution">>,
                ItemEvent(<<"command_execution">>,
                          FieldItems(<<"aggregated_output">>, Str(<<"hi">>))),
                CompactLayout),
      EventItem(<<"foo">>, FlatEvent(<<"foo">>, <<>>), CompactLayout),
      EventItem(<<>>, Obj(<<>>), CompactLayout),
      EventItem(<<"token_count">>, FlatEvent(<<"token_count">>, <<>>), CompactLayout),
      EventItem(<<"5">>, Obj(<< <<<<"type">>, Lit("5")>> >>), CompactLayout),
      EventItem(<<"5">>,
                Obj(<< <<<<"type">>, Lit("5")>>, <<<<"x">>, Str(<<"turn_diff">>)>> >>),
                CompactLayout) }

DvClaudeLines ==
    { dumps(Obj(<< <<<<"type">>, Str(<<"system">>)>> >>)),
      dumps(ClaudeEvent("user", Str(<<"hi">>))),
      dumps(Obj(<< <<<<"type">>, Str(<<"user">>)>>, <<<<"message">>, Str(<<"hi">>)>> >>)),
      dumps(Obj(<< <<<<"foo">>, Str(<<"x">>)>> >>)),
      <<"not json">> }

DvInit ==
    /\ RsIdle /\ RnIdle /\ ExtIdle
    /\ \/ /\ ClIdle
          /\ DrReading
          /\ dr_impl \in {"codex", "gemini"}
          /\ dr_named = {}
          /\ environ = NoEnviron
          /\ hide_types = IF dr_impl = "codex" THEN ResolveHideTypes(<<>>, <<>>) ELSE {}
          /\ dr_items \in SeqsUpTo(DvEvents, MaxEmits)
          /\ dr_lines = LinesOf(StreamOf(ItemTexts(dr_items), <<NL>>), <<>>)
       \/ /\ DrIdle
          /\ user_message_truncate = DefaultTruncate
          /\ cl_pretty \in BOOLEAN
          /\ message_counter = 0
          /\ cl_out = <<>>
          /\ \E lines \in SeqsUpTo(DvClaudeLines, MaxEmits) :
                cl_lines = [i \in 1..Len(lines) |-> Append(lines[i], NL)]

DvNext == CodexLine \/ CodexEnd \/ GeminiLine \/ GeminiEnd \/ ClaudeLine

SpecDrivers == DvInit /\ [][DvNext]_vars

\* The header line of a printed text carries the key
Carries(text, key) ==
    LET Keyed(h) == h.ok /\ IsDict(h.val) /\ HasKey(h.val, <<key>>)
    IN  Keyed(loads(FirstLine(text)))

\* The rendered texts run_codex or run_gemini has printed, and run_claude
DrRendered == { i \in 1..Len(dr_out) : dr_out[i].via = "pretty" }
ClRendered2 == { i \in 1..Len(cl_out) : cl_out[i].rendered }

DvKept == SelectSeq(dr_items, LAMBDA item : ~(dr_impl = "codex" /\ item.kind \in hide_types))

\* The print call stems from the event: it renders it, or is its JSON, or is
\* the text of the event as the child wrote it
StemsFrom(printed, item) ==
    \/ printed.via = "pretty" /\ printed.obj = item.val
    \/ /\ printed.via = "json" /\ printed.obj = item.val
       /\ loads(printed.text).ok /\ loads(printed.text).val = item.val
    \/ printed.via = "raw" /\ printed.text = item.text

\* C17 as stated: once run_codex or run_gemini has read the stream, each
\* event that is not suppressed has its print call, in order: its rendering,
\* or, for an event no rule renders or whose handling raised, its JSON or the
\* text it came as; and the events after it have theirs.  Each line run_claude
\* reads gives one print call, the unchanged line when it is not rendered.
C17_NeverDrops ==
    /\ [](/\ dr_pc = "closed" /\ dr_impl # "" =>
                /\ Len(dr_out) = Len(DvKept)
                /\ \A k \in 1..Len(dr_out) : StemsFrom(dr_out[k], DvKept[k])
          /\ \A k \in 1..Len(cl_out) :
                ~cl_out[k].rendered => cl_out[k].text = cl_out[k].line)
    /\ [][cl_lines' # cl_lines => Len(cl_out') = Len(cl_out) + 1]_vars

----------------------------------------------------------------------------
(* slack_state.py: a SlackStateManager built over a state file that is      *)
(* missing or empty, and the mark_processed calls made on it.  A call may   *)
(* carry message_data that json.dumps cannot serialize, and the open of the *)
(* state file may fail.                                                     *)

MaxMarks == 3

\* Message timestamps, in the order Python compares them as strings
TsOrder == <<"1", "2">>
Timestamps == {TsOrder[i] : i \in 1..Len(TsOrder)}
TsRank(ts) == CHOOSE i \in 1..Len(TsOrder) : TsOrder[i] = ts

TaskIds == {"T1", "T2"}

\* message_data: a text, a dict with a task_id of its own, one with a ts of
\* its own, and a dict that holds a Python set
MessageDatas ==
    { Obj(<< <<<<"text">>, Str(<<"Hello">>)>> >>),
      Obj(<< <<<<"task_id">>, Str(<<"X">>)>> >>),
      Obj(<< <<<<"ts">>, Str(<<"1">>)>> >>),
      Obj(<< <<<<"x">>, [t |-> "set", v |-> <<>>]>> >>) }

\* json.dumps raises TypeError for the dict
DumpsRaises(d) == \E i \in 1..Len(d.v) : d.v[i][2].t = "set"

\* datetime.now(timezone.utc).isoformat()
utc_now == "2026-01-01T00:00:00+00:00"

\* The manager as the methods see it
SsState ==
    [state_file |-> ss_file, messages |-> messages,
     message_ts_set |-> message_ts_set, last_ts |-> last_ts]

\* is_processed(message_ts)
is_processed(self, message_ts) == message_ts \in self.message_ts_set

\* get_message_count()
get_message_count(self) == Len(self.messages)

\* get_task_id_for_message(message_ts): the task_id of the first message
\* whose ts it is, None when there is none
RECURSIVE TaskIdIn(_, _)
TaskIdIn(msgs, message_ts) ==
    IF msgs = <<>> THEN None
    ELSE IF Get(Head(msgs), <<"ts">>) = Str(<<message_ts>>)
    THEN Get(Head(msgs), <<"task_id">>)
    ELSE TaskIdIn(Tail(msgs), message_ts)

get_task_id_for_message(self, message_ts) == TaskIdIn(self.messages, message_ts)

\* A check for duplicates that finds none
NeverDuplicate(self, message_ts) == FALSE

\* if message_ts in self.message_ts_set
IsDuplicate(self, message_ts) == message_ts \in self.message_ts_set

\* entry = {'ts': ..., 'task_id': ..., 'processed_at': ..., **message_data}
SsEntry(message_ts, task_id, message_data) ==
    Merge(Obj(<< <<<<"ts">>, Str(<<message_ts>>)>>,
                 <<<<"task_id">>, Str(<<task_id>>)>>,
                 <<<<"processed_at">>, Str(<<utc_now>>)>> >>),
          message_data.v)

\* with open(state_file, 'a') as f: f.write(json.dumps(entry) + '\n')
AppendLine(file, line) == [exists |-> TRUE, lines |-> Append(file.lines, line)]

\* mark_processed(message_ts, task_id, message_data): the manager it leaves
\* and what it returns; open_fails tells whether the open raises
mark_processed(self, message_ts, task_id, message_data, open_fails) ==
    LET Recorded(entry) ==
            [self |-> [state_file |-> AppendLine(self.state_file, dumps(entry) \o <<NL>>),
                       messages |-> Append(self.messages, entry),
                       message_ts_set |-> self.message_ts_set \cup {message_ts},
                       last_ts |-> IF self.last_ts = "None"
                                      \/ TsRank(message_ts) > TsRank(self.last_ts)
                                   THEN message_ts ELSE self.last_ts],
             ret |-> TRUE]
    IN  IF IsDuplicate(self, message_ts) THEN [self |-> self, ret |-> FALSE]
        ELSE IF open_fails THEN [self |-> self, ret |-> FALSE]
        ELSE IF DumpsRaises(message_data)
        THEN [self |-> [self EXCEPT !.state_file.exists = TRUE], ret |-> FALSE]
        ELSE Recorded(SsEntry(message_ts, task_id, message_data))

\* What the claim speaks of, for one timestamp
SsView(self, message_ts) ==
    [count |-> get_message_count(self),
     processed |-> is_processed(self, message_ts),
     task_id |-> get_task_id_for_message(self, message_ts),
     last_ts |-> self.last_ts,
     state_file |-> self.state_file]

SsInit ==
    /\ RsIdle /\ RnIdle /\ DrIdle /\ ClIdle /\ PrIdle /\ RpIdle
    /\ managers = {"slack"} /\ reader = NoReader /\ SvIdle
    /\ user_message_truncate = DefaultTruncate
    /\ ss_file \in {[exists |-> FALSE, lines |-> <<>>], [exists |-> TRUE, lines |-> <<>>]}
    /\ messages = <<>> /\ message_ts_set = {} /\ last_ts = "None"
    /\ ss_calls = <<>>

\* One call of mark_processed
MarkProcessed ==
    /\ "slack" \in managers
    /\ Len(ss_calls) < MaxMarks
    /\ \E message_ts \in Timestamps, task_id \in TaskIds,
          message_data \in MessageDatas, open_fails \in BOOLEAN :
          \E r \in {mark_processed(SsState, message_ts, task_id, message_data, open_fails)} :
             /\ ss_file' = r.self.state_file
             /\ messages' = r.self.messages
             /\ message_ts_set' = r.self.message_ts_set
             /\ last_ts' = r.self.last_ts
             /\ ss_calls' = Append(ss_calls,
                                   [ts |-> message_ts, task_id |-> task_id, ret |-> r.ret,
                                    raised |-> open_fails \/ DumpsRaises(message_data),
                                    before |-> SsView(SsState, message_ts),
                                    after |-> SsView(r.self, message_ts)])
    /\ UNCHANGED <<rs_vars, rn_vars, user_message_truncate, dr_vars, cl_vars, pr_vars, rp_vars, ps_vars, sv_vars>>

SsNext == MarkProcessed

SpecSlackState == SsInit /\ [][SsNext]_vars

\* The call is the first for its timestamp; a call before it recorded the
\* timestamp
FirstForTs(i) == \A j \in 1..(i - 1) : ss_calls[j].ts # ss_calls[i].ts
RecordedBefore(i) == \E j \in 1..(i - 1) : ss_calls[j].ts = ss_calls[i].ts /\ ss_calls[j].ret

\* The call recorded its message: one message and one line of the state
\* file more, the timestamp processed
Records(call) ==
    /\ call.after.count = call.before.count + 1
    /\ call.after.processed
    /\ Len(call.after.state_file.lines) = Len(call.before.state_file.lines) + 1
    /\ call.after.state_file.exists

\* C19 as stated: the first call for a timestamp returns True and records it;
\* every later call with that timestamp returns False and leaves the message
\* count, the task id stored for the timestamp, the last timestamp and the
\* state file as they were.
C19_MessageDedup ==
    \A i \in 1..Len(ss_calls) :
        IF FirstForTs(i)
        THEN ss_calls[i].ret /\ Records(ss_calls[i])
        ELSE ~ss_calls[i].ret /\ ss_calls[i].after = ss_calls[i].before

\* C19, amended: a call for a timestamp no earlier call has recorded returns
\* True and records it, unless the open of the state file or json.dumps of
\* the entry raises: then it returns False and records nothing (the file, if
\* missing, may have been created empty), and a later call with that
\* timestamp is treated as a first one.  Every call for a timestamp that is
\* recorded returns False and leaves the message count, the task id stored
\* for the timestamp, the last timestamp and the state file as they were.
C19_MessageDedupOfRecorded ==
    \A i \in 1..Len(ss_calls) :
        /\ RecordedBefore(i) =>
              ~ss_calls[i].ret /\ ss_calls[i].after = ss_calls[i].before
        /\ (~RecordedBefore(i) /\ ~ss_calls[i].raised) =>
              ss_calls[i].ret /\ Records(ss_calls[i])
        /\ (~RecordedBefore(i) /\ ss_calls[i].raised) =>
              /\ ~ss_calls[i].ret
              /\ [ss_calls[i].after EXCEPT !.state_file.exists = FALSE]
                    = [ss_calls[i].before EXCEPT !.state_file.exists = FALSE]

\* Three calls for one timestamp with three task ids in turn: the first
\* recorded it, the other two returned False, one message is stored and its
\* task id is the first one.
C19_Witness ==
    /\ Len(ss_calls) = 3
    /\ \A i \in 1..3 : ss_calls[i].ts = "1"
    /\ ss_calls[1].ret /\ ~ss_calls[2].ret /\ ~ss_calls[3].ret
    /\ ss_calls[1].task_id = "T1" /\ ss_calls[2].task_id = "T2"
    /\ get_message_count(SsState) = 1
    /\ get_task_id_for_message(SsState, "1") = Str(<<"T1">>)
    /\ last_ts = "1"
    /\ Len(ss_file.lines) = 1

----------------------------------------------------------------------------
(* slack_state.py: a ResponseStateManager built over a state file that is   *)
(* missing, empty or left by an earlier manager, and the record_sent and    *)
(* reset_state calls made on it.  The open of the state file may fail.      *)

MaxRecords == 3

ChannelId == "C1"
ResponseTss == {"None", "9"}
SentPairs == TaskIds \X Timestamps

\* The manager as the methods see it
RpState == [state_file |-> rp_file, sent_responses |-> sent_responses, sent_keys |-> sent_keys]

\* was_response_sent(task_id, message_ts)
was_response_sent(self, task_id, message_ts) == <<task_id, message_ts>> \in self.sent_keys

\* get_sent_count()
get_sent_count(self) == Len(self.sent_responses)

\* entry = {'task_id', 'message_ts', 'channel_id', 'sent_at'}, and
\* response_ts when one is given
RpEntry(task_id, message_ts, channel_id, response_ts) ==
    Merge(Obj(<< <<<<"task_id">>, Str(<<task_id>>)>>,
                 <<<<"message_ts">>, Str(<<message_ts>>)>>,
                 <<<<"channel_id">>, Str(<<channel_id>>)>>,
                 <<<<"sent_at">>, Str(<<utc_now>>)>> >>),
          IF response_ts # "None"
          THEN << <<<<"response_ts">>, Str(<<response_ts>>)>> >> ELSE <<>>)

\* _load_state(): the entries of the lines of the file, and the keys of
\* those with a task_id and a message_ts
RECURSIVE LoadEntries(_)
LoadEntries(lines) ==
    IF lines = <<>> THEN <<>>
    ELSE IF strip(Head(lines)) = <<>> THEN LoadEntries(Tail(lines))
    ELSE <<loads(strip(Head(lines))).val>> \o LoadEntries(Tail(lines))

LoadedKeys(entries) ==
    { <<Get(entries[i], <<"task_id">>).v[1], Get(entries[i], <<"message_ts">>).v[1]>> :
        i \in { j \in 1..Len(entries) :
                  Truthy(Get(entries[j], <<"task_id">>)) /\ Truthy(Get(entries[j], <<"message_ts">>)) } }

\* json.loads(line) or entry.get(...) raises for one of the lines
LoadRaises(lines) ==
    \E i \in 1..Len(lines) :
        /\ strip(lines[i]) # <<>>
        /\ \/ ~loads(strip(lines[i])).ok
           \/ ~IsDict(loads(strip(lines[i])).val)

\* except Exception: self.sent_responses = []; self.sent_keys = set()
LoadedOrEmpty(lines) == IF LoadRaises(lines) THEN <<>> ELSE LoadEntries(lines)

_load_state(file) ==
    LET Loaded(entries) ==
            [state_file |-> file, sent_responses |-> entries, sent_keys |-> LoadedKeys(entries)]
    IN  IF ~file.exists
        THEN [state_file |-> file, sent_responses |-> <<>>, sent_keys |-> {}]
        ELSE Loaded(LoadedOrEmpty(file.lines))

\* A record_sent that takes no pair for recorded
RecordAgain(self, task_id, message_ts) == FALSE

\* if key in self.sent_keys
AlreadySent(self, task_id, message_ts) == <<task_id, message_ts>> \in self.sent_keys

\* record_sent(task_id, message_ts, channel_id, response_ts): the manager it
\* leaves and what it returns; open_fails tells whether the open raises
record_sent(self, task_id, message_ts, channel_id, response_ts, open_fails) ==
    LET Recorded(entry) ==
            [self |-> [state_file |-> AppendLine(self.state_file, dumps(entry) \o <<NL>>),
                       sent_responses |-> Append(self.sent_responses, entry),
                       sent_keys |-> self.sent_keys \cup {<<task_id, message_ts>>}],
             ret |-> TRUE]
    IN  IF AlreadySent(self, task_id, message_ts) THEN [self |-> self, ret |-> FALSE]
        ELSE IF open_fails THEN [self |-> self, ret |-> FALSE]
        ELSE Recorded(RpEntry(task_id, message_ts, channel_id, response_ts))

\* reset_state(): the manager it leaves
reset_state(self) ==
    [state_file |-> [exists |-> FALSE, lines |-> <<>>], sent_responses |-> <<>>, sent_keys |-> {}]

\* What the claim speaks of
RpView(self) ==
    [count |-> get_sent_count(self),
     sent |-> {p \in SentPairs : was_response_sent(self, p[1], p[2])},
     file_exists |-> self.state_file.exists]

RpCall(op, task_id, message_ts, ret, raised, before, after) ==
    [op |-> op, task_id |-> task_id, message_ts |-> message_ts, ret |-> ret,
     raised |-> raised, before |-> RpView(before), after |-> RpView(after)]

\* The state files a manager is built over
RpFiles ==
    { [exists |-> FALSE, lines |-> <<>>],
      [exists |-> TRUE, lines |-> <<>>],
      [exists |-> TRUE, lines |-> <<dumps(RpEntry("T1", "1", ChannelId, "None")) \o <<NL>>>>] }

RpInit ==
    /\ RsIdle /\ RnIdle /\ DrIdle /\ ClIdle /\ PrIdle /\ SsIdle
    /\ managers = {"response"} /\ reader = NoReader /\ SvIdle
    /\ user_message_truncate = DefaultTruncate
    /\ \E file \in RpFiles :
          \E self \in {_load_state(file)} :
             /\ rp_file = self.state_file
             /\ sent_responses = self.sent_responses
             /\ sent_keys = self.sent_keys
             /\ rp_calls = <<RpCall("__init__", "", "", FALSE, FALSE, self, self)>>

\* One call of record_sent
RecordSent ==
    /\ "response" \in managers
    /\ Len(rp_calls) <= MaxRecords
    /\ \E task_id \in TaskIds, message_ts \in Timestamps,
          response_ts \in ResponseTss, open_fails \in BOOLEAN :
          \E r \in {record_sent(RpState, task_id, message_ts, ChannelId, response_ts, open_fails)} :
             /\ rp_file' = r.self.state_file
             /\ sent_responses' = r.self.sent_responses
             /\ sent_keys' = r.self.sent_keys
             /\ rp_calls' = Append(rp_calls,
                                   RpCall("record_sent", task_id, message_ts, r.ret,
                                          open_fails, RpState, r.self))
    /\ UNCHANGED <<rs_vars, rn_vars, user_message_truncate, dr_vars, cl_vars, pr_vars, ss_vars, ps_vars, sv_vars>>

\* One call of reset_state
ResetState ==
    /\ "response" \in managers
    /\ Len(rp_calls) <= MaxRecords
    /\ \E self \in {reset_state(RpState)} :
          /\ rp_file' = self.state_file
          /\ sent_responses' = self.sent_responses
          /\ sent_keys' = self.sent_keys
          /\ rp_calls' = Append(rp_calls,
                                RpCall("reset_state", "", "", FALSE, FALSE, RpState, self))
    /\ UNCHANGED <<rs_vars, rn_vars, user_message_truncate, dr_vars, cl_vars, pr_vars, ss_vars, ps_vars, sv_vars>>

RpNext == RecordSent \/ ResetState

SpecResponseState == RpInit /\ [][RpNext]_vars

\* The calls made since the last reset_state (since the manager was built,
\* when there was none)
LastReset ==
    IF \E i \in 1..Len(rp_calls) : rp_calls[i].op = "reset_state"
    THEN CHOOSE i \in 1..Len(rp_calls) :
            /\ rp_calls[i].op = "reset_state"
            /\ \A j \in (i + 1)..Len(rp_calls) : rp_calls[j].op # "reset_state"
    ELSE 1

SinceReset == { i \in (LastReset + 1)..Len(rp_calls) : rp_calls[i].op = "record_sent" }

\* The pairs loaded from the state file when the manager was built
LoadedPairs == IF LastReset = 1 THEN rp_calls[1].after.sent ELSE {}

CalledPair(i) == <<rp_calls[i].task_id, rp_calls[i].message_ts>>

\* reset_state left the count at 0, every pair unsent and no state file
ResetClears ==
    \A i \in 1..Len(rp_calls) :
        rp_calls[i].op = "reset_state" =>
            rp_calls[i].after = [count |-> 0, sent |-> {}, file_exists |-> FALSE]

\* A record_sent changes what was_response_sent says of its own pair only
TrackedSeparately ==
    \A i \in 1..Len(rp_calls) :
        rp_calls[i].op = "record_sent" =>
            rp_calls[i].after.sent \ {CalledPair(i)} = rp_calls[i].before.sent \ {CalledPair(i)}

\* C20 as stated: was_response_sent is true exactly for the pairs given to
\* record_sent since the last reset (and those the state file held when the
\* manager was built); pairs differing in a component are tracked
\* separately; a second record_sent of a pair returns False and leaves the
\* sent count unchanged; reset_state leaves the count at 0, every pair unsent
\* and the state file deleted.
C20_ResponseDedupReset ==
    /\ RpView(RpState).sent = LoadedPairs \cup {CalledPair(i) : i \in SinceReset}
    /\ TrackedSeparately
    /\ \A i \in SinceReset :
          (\E j \in SinceReset : j < i /\ CalledPair(j) = CalledPair(i)) =>
              ~rp_calls[i].ret /\ rp_calls[i].after.count = rp_calls[i].before.count
    /\ ResetClears

\* C20, amended: was_response_sent is true exactly for the pairs whose
\* record_sent returned True since the last reset (and those the state file
\* held when the manager was built); a record_sent whose open of the state
\* file raises returns False and records nothing.  Pairs differing in a
\* component are tracked separately; a record_sent of a pair that is
\* recorded returns False and leaves the sent count unchanged, and one of a
\* pair that is not recorded returns True and adds one to the count, unless
\* it raises; reset_state leaves the count at 0, every pair unsent and the
\* state file deleted.
C20_ResponseDedupResetOfRecorded ==
    /\ RpView(RpState).sent
          = LoadedPairs \cup {CalledPair(i) : i \in {j \in SinceReset : rp_calls[j].ret}}
    /\ TrackedSeparately
    /\ \A i \in 1..Len(rp_calls) :
          rp_calls[i].op = "record_sent" =>
             IF CalledPair(i) \in rp_calls[i].before.sent \/ rp_calls[i].raised
             THEN ~rp_calls[i].ret /\ rp_calls[i].after = rp_calls[i].before
             ELSE /\ rp_calls[i].ret
                  /\ rp_calls[i].after.count = rp_calls[i].before.count + 1
                  /\ rp_calls[i].after.sent = rp_calls[i].before.sent \cup {CalledPair(i)}
                  /\ rp_calls[i].after.file_exists
    /\ ResetClears

\* A pair was recorded, recorded again (False, count still 1), and the state
\* was reset: no pair is sent, the count is 0 and the file is gone.
C20_Witness ==
    /\ Len(rp_calls) = 4
    /\ rp_calls[1].after.count = 0
    /\ rp_calls[2].op = "record_sent" /\ rp_calls[2].ret /\ rp_calls[2].after.count = 1
    /\ rp_calls[3].op = "record_sent" /\ CalledPair(3) = CalledPair(2)
    /\ ~rp_calls[3].raised /\ ~rp_calls[3].ret /\ rp_calls[3].after.count = 1
    /\ rp_calls[4].op = "reset_state"
    /\ get_sent_count(RpState) = 0
    /\ \A p \in SentPairs : ~was_response_sent(RpState, p[1], p[2])
    /\ ~rp_file.exists

----------------------------------------------------------------------------
(* slack_state.py: a second manager constructed on the state file that a    *)
(* first one has written, and what the two report.                          *)

\* Python's order of the timestamps and of the default '0' of msg.get
PyRank(ts) == IF ts = "0" THEN 0 ELSE TsRank(ts)

\* json.loads(line) raises, or msg.get does because the line is no dict
SlackLoadRaises(lines) ==
    \E i \in 1..Len(lines) :
        /\ strip(lines[i]) # <<>>
        /\ ~loads(strip(lines[i])).ok \/ ~IsDict(loads(strip(lines[i])).val)

\* max(msg.get('ts', '0') for msg in self.messages)
MaxTs(entries) ==
    LET Of(i) == GetOr(entries[i], <<"ts">>, Str(<<"0">>)).v[1]
    IN  CHOOSE ts \in {Of(i) : i \in 1..Len(entries)} :
            \A i \in 1..Len(entries) : PyRank(ts) >= PyRank(Of(i))

\* SlackStateManager._load_state(): the manager it builds over the file
slack_load_state(file) ==
    LET Empty == [state_file |-> file, messages |-> <<>>, message_ts_set |-> {},
                  last_ts |-> "None"]
        Loaded(entries) ==
            [state_file |-> file, messages |-> entries,
             message_ts_set |-> { Get(entries[i], <<"ts">>).v[1] :
                                    i \in {j \in 1..Len(entries) : Truthy(Get(entries[j], <<"ts">>))} },
             last_ts |-> IF entries # <<>> THEN MaxTs(entries) ELSE "None"]
    IN  IF ~file.exists \/ SlackLoadRaises(file.lines) THEN Empty
        ELSE Loaded(LoadEntries(file.lines))

\* What a SlackStateManager reports
SlackReport(self) ==
    [count |-> get_message_count(self),
     answers |-> {ts \in Timestamps : is_processed(self, ts)},
     task_ids |-> [i \in 1..Len(TsOrder) |-> get_task_id_for_message(self, TsOrder[i])],
     last_ts |-> self.last_ts]

\* What a ResponseStateManager reports
ResponseReport(self) ==
    [count |-> get_sent_count(self),
     answers |-> {p \in SentPairs : was_response_sent(self, p[1], p[2])},
     task_ids |-> <<>>,
     last_ts |-> "None"]

PsInit == SsInit \/ RpInit

\* SlackStateManager(state_file), a second time
SlackReopen ==
    /\ "slack" \in managers /\ reader.of = "none"
    /\ reader' = [of |-> "slack", calls |-> Len(ss_calls),
                  view |-> SlackReport(slack_load_state(ss_file)),
                  writer |-> SlackReport(SsState)]
    /\ UNCHANGED <<rs_vars, rn_vars, user_message_truncate, dr_vars, cl_vars, pr_vars,
                   ss_vars, rp_vars, managers, sv_vars>>

\* ResponseStateManager(state_file), a second time
ResponseReopen ==
    /\ "response" \in managers /\ reader.of = "none"
    /\ reader' = [of |-> "response", calls |-> Len(rp_calls),
                  view |-> ResponseReport(_load_state(rp_file)),
                  writer |-> ResponseReport(RpState)]
    /\ UNCHANGED <<rs_vars, rn_vars, user_message_truncate, dr_vars, cl_vars, pr_vars,
                   ss_vars, rp_vars, managers, sv_vars>>

PsNext == MarkProcessed \/ RecordSent \/ ResetState \/ SlackReopen \/ ResponseReopen

SpecPersistence == PsInit /\ [][PsNext]_vars

\* Every call made through the first manager before the second was built
\* succeeded
AllSucceeded ==
    /\ reader.of = "slack" => \A i \in 1..reader.calls : ss_calls[i].ret
    /\ reader.of = "response" =>
          \A i \in 1..reader.calls : rp_calls[i].op = "record_sent" => rp_calls[i].ret

\* C21 as stated: after successful mark_processed (record_sent) calls through
\* one manager, a new manager constructed on the same state file reports the
\* same count, the same is_processed (was_response_sent) answers, the same
\* task id for every message and the same last timestamp as the manager that
\* wrote the file.
C21_PersistsAcrossInstances ==
    (reader.of # "none" /\ reader.calls > 0 /\ AllSucceeded) => reader.view = reader.writer

----------------------------------------------------------------------------
(* codex.py: run_codex, and gemini.py: run_gemini, over reads that are not  *)
(* all whole events: diagnostic text, text before and after an object,      *)
(* stray closing braces, an object cut at a line break.                     *)

MaxReads == 2

FooEvent == dumps(Obj(<< <<<<"type">>, Str(<<"foo">>)>> >>))
BarEvent == dumps(Obj(<< <<<<"type">>, Str(<<"bar">>)>> >>))

\* The lines the child writes
StreamReads ==
    { FooEvent \o <<NL>>,
      <<"warn", NL>>,
      <<"warn", SP>> \o FooEvent \o <<NL>>,
      <<RB, NL>>,
      FooEvent \o <<RB>> \o BarEvent \o <<NL>>,
      <<LB, DQ, "type", DQ, COLON, NL>>,
      <<DQ, "foo", DQ, RB, NL>>,
      <<DQ, "turn_diff", DQ, NL>>,
      FooEvent \o <<SP, "trailing", NL>>,
      <<DQ, "turn_diff", DQ, SP>> \o FooEvent \o <<NL>> }

SmInit ==
    /\ RsIdle /\ RnIdle /\ ClIdle /\ ExtIdle
    /\ DrReading
    /\ dr_impl \in {"codex", "gemini"}
    /\ dr_items = <<>>
    /\ dr_named = {}
    /\ environ = NoEnviron
    /\ hide_types = IF dr_impl = "codex" THEN ResolveHideTypes(<<>>, <<>>) ELSE {}
    /\ dr_lines \in SeqsUpTo(StreamReads, MaxReads)

SmNext == CodexLine \/ CodexEnd \/ GeminiLine \/ GeminiEnd

SpecStream == SmInit /\ [][SmNext]_vars

\* The text holds a whole object at its top level: a span from an opening to
\* a closing brace that parses as a JSON object, with no brace and no quote
\* open before it
HasCompleteObject(text) ==
    \E i \in 1..Len(text) : \E j \in i..Len(text) :
        /\ text[i] = LB /\ text[j] = RB
        /\ \A k \in 1..(i - 1) : text[k] # LB /\ text[k] # DQ
        /\ loads(SubSeq(text, i, j)).ok
        /\ IsDict(loads(SubSeq(text, i, j)).val)

\* C22 as stated: in every state of a stream driver, whatever was read, the
\* pending buffer holds no complete, balanced top-level object.
C22_PendingInvariant == ~HasCompleteObject(pending)

\* The brace depth split_json_stream stands at after the text
EndDepth(impl, text) == Scan(text, impl = "gemini").depth

\* The stream ends in this step, with the depth of pending not zero
EndsUnbalanced ==
    dr_pc = "reading" /\ dr_pc' = "closed" /\ EndDepth(dr_impl, pending) # 0

\* C23 as stated: when the stream ends while the brace depth is not zero,
\* the partial object in pending is discarded silently: nothing is printed
\* for it, neither rendered nor raw.
C23_FramingError ==
    [][EndsUnbalanced => dr_out' = dr_out /\ dr_seen' = dr_seen]_vars

\* C23, amended: when the stream ends while the brace depth is not zero, the
\* partial object in pending is never rendered as an event; it is printed
\* once as raw text, except that run_codex drops it when it holds the quoted
\* name of one of the three default suppressed kinds.
C23_FramingErrorPrintedRaw ==
    [][EndsUnbalanced =>
          /\ dr_seen' = dr_seen
          /\ IF dr_impl = "codex" /\ RawSuppressed(pending)
             THEN /\ dr_out' = dr_out
                  /\ dr_dropped' = Append(dr_dropped, [route |-> "tail", text |-> pending])
             ELSE /\ dr_out' = Append(dr_out, [via |-> "raw", route |-> "tail",
                                               text |-> pending, obj |-> None])
                  /\ dr_dropped' = dr_dropped]_vars

\* A stream has ended inside an object, and the text was printed raw.
C23_Witness ==
    /\ dr_pc = "closed"
    /\ pending = <<LB, DQ, "type", DQ, COLON, NL>>
    /\ EndDepth(dr_impl, pending) = 1
    /\ dr_out = <<[via |-> "raw", route |-> "tail", text |-> pending, obj |-> None]>>

----------------------------------------------------------------------------
(* split_json_stream over streams that hold text outside their objects      *)

MaxPieces == 2

\* What the child writes: an event, text before and after an object, a line
\* break, the beginning of an object
RtPieces ==
    { FooEvent, <<"warn", SP>>, <<SP, "trailing">>, <<NL>>, <<LB, DQ, "type", DQ, COLON>> }

RtInit ==
    /\ rs_impl \in {"codex", "gemini"}
    /\ rs_sep = <<>>
    /\ rs_objs \in SeqsUpTo(RtPieces, MaxPieces)
    /\ rs_rest = StreamOf(rs_objs, rs_sep)
    /\ rs_pending = <<>>
    /\ rs_out = <<>>
    /\ rs_cut = FALSE
    /\ RnIdle /\ DrIdle /\ ClIdle /\ ExtIdle
    /\ user_message_truncate = DefaultTruncate

SpecRemainder == RtInit /\ [][RsNext]_vars

\* The index of the brace that closes the object opened at text[i], 0 if the
\* text ends before it
RECURSIVE ClosingBrace(_, _, _, _, _)
ClosingBrace(text, i, depth, in_str, esc) ==
    IF i > Len(text) THEN 0
    ELSE IF in_str
    THEN ClosingBrace(text, i + 1, depth, esc \/ text[i] # DQ, ~esc /\ text[i] = BS)
    ELSE IF text[i] = DQ THEN ClosingBrace(text, i + 1, depth, TRUE, FALSE)
    ELSE IF text[i] = LB THEN ClosingBrace(text, i + 1, depth + 1, FALSE, FALSE)
    ELSE IF text[i] = RB
    THEN (IF depth = 1 THEN i ELSE ClosingBrace(text, i + 1, depth - 1, FALSE, FALSE))
    ELSE ClosingBrace(text, i + 1, depth, FALSE, FALSE)

\* The text without its complete objects: what lies before, between and
\* after them, and the object left open at its end
RECURSIVE WithoutObjects(_)
WithoutObjects(text) ==
    LET Cut(i, j) ==
            IF j = 0 THEN text
            ELSE SubSeq(text, 1, i - 1) \o WithoutObjects(SubSeq(text, j + 1, Len(text)))
        From(i) == Cut(i, ClosingBrace(text, i, 0, FALSE, FALSE))
    IN  IF ~HasChar(text, LB) THEN text ELSE From(find(text, LB) + 1)

\* The chunk a call of feed was given
FedChunk == SubSeq(rs_rest, 1, Len(rs_rest) - Len(rs_rest'))

\* C24 as stated: after feed(chunk, pending), every character of pending +
\* chunk outside the objects it returned is in the remainder, in order: the
\* reassembler discards no character.
C24_RemainderPreservesText ==
    [][rs_rest' # rs_rest => rs_pending' = WithoutObjects(rs_pending \o FedChunk)]_vars

\* The text of a read before its first opening brace, and from that brace on
PrefixOf(line) == SubSeq(line, 1, find(line, LB))
FromBraceOn(line) == SubSeq(line, find(line, LB) + 1, Len(line))

\* The read has text before its first opening brace
HasPrefix(line) == HasChar(line, LB) /\ strip(PrefixOf(line)) # <<>>

\* What was printed, without the route it took
Shown(out) == [i \in 1..Len(out) |-> <<out[i].via, out[i].text>>]

\* What the driver does with a line in the state it stands in
ReadOf(line) ==
    IF dr_impl = "codex" THEN CodexRead(DrState, pending, line, hide_types)
    ELSE GeminiRead(DrState, pending, line)

\* The step reads a line with a prefix: the prefix is printed on its own, or
\* dropped for a suppressed name, and the rest is handled as a read without it
PrefixFlushed(line) ==
    LET Rest(r) ==
            /\ Shown(dr_out') =
                  Shown(dr_out)
                  \o (IF RawSuppressed(PrefixOf(line)) THEN <<>>
                      ELSE << <<"raw", PrintedLine(PrefixOf(line))>> >>)
                  \o Shown(SubSeq(r.st.out, Len(dr_out) + 1, Len(r.st.out)))
            /\ dr_seen' = r.st.seen
            /\ pending' = r.pending
    IN  Rest(ReadOf(FromBraceOn(line)))

\* C25 as stated: when a read holds text before its first opening brace, the
\* prefix is printed on its own (or dropped if it holds a quoted suppressed
\* name) before any object of the read, and the objects after it are parsed
\* and rendered as if the prefix were absent.
C25_PrefixFlush ==
    [][(dr_lines # <<>> /\ dr_lines' = Tail(dr_lines) /\ HasPrefix(Head(dr_lines)))
          => PrefixFlushed(Head(dr_lines))]_vars

\* The read is diagnostic text: not blank, and no brace in it
IsDiagnostic(line) == strip(line) # <<>> /\ ~HasChar(line, LB) /\ ~HasChar(line, RB)

\* C26 as stated: a read of run_codex that holds only diagnostic text is
\* printed untouched, once, before the next read, and leaves pending empty;
\* if it holds a quoted suppressed name nothing is printed, and pending is
\* left empty too.
C26_DiagnosticPassthrough ==
    [][(dr_impl = "codex" /\ dr_lines # <<>> /\ dr_lines' = Tail(dr_lines)
        /\ IsDiagnostic(Head(dr_lines)))
          => /\ pending' = <<>>
             /\ dr_seen' = dr_seen
             /\ Shown(dr_out') =
                   Shown(dr_out)
                   \o (IF RawSuppressed(Head(dr_lines)) THEN <<>>
                       ELSE << <<"raw", PrintedLine(Head(dr_lines))>> >>)]_vars

----------------------------------------------------------------------------
(* codex.py: run_codex resolves hide_types from os.environ before it reads  *)
(* the child's output                                                       *)

MaxEnvLen == 3

\* The characters of the values of CODEX_HIDE_STREAM_TYPES
EnvChars == {"foo", "bar", SP, COMMA}

\* The values of JUNO_CODE_HIDE_STREAM_TYPES
JunoValues == {<<>>, <<"bar">>, <<"foo", COMMA, SP>>, <<"baz", SP, COMMA, "turn_diff">>}

\* The events the child writes
HdItems ==
    { EventItem(<<"foo">>, FlatEvent(<<"foo">>, <<>>), CompactLayout),
      EventItem(<<"bar">>, Envelope(<<"bar">>, <<>>), CompactLayout),
      EventItem(<<"turn_diff">>, ItemEvent(<<"turn_diff">>, <<>>), CompactLayout) }

\* The entries of a comma-separated value: what stands between two commas
\* (or an end of the value), without the blanks around it, if anything is
\* left
EntriesOf(env_val) ==
    { SubSeq(env_val, i, j) : <<i, j>> \in
        { ij \in (1..Len(env_val)) \X (1..Len(env_val)) :
            /\ ij[1] <= ij[2]
            /\ env_val[ij[1]] # SP /\ env_val[ij[2]] # SP
            /\ \A k \in ij[1]..ij[2] : env_val[k] # COMMA
            /\ \E a \in 1..ij[1] : \E b \in ij[2]..Len(env_val) :
                  /\ a = 1 \/ env_val[a - 1] = COMMA
                  /\ b = Len(env_val) \/ env_val[b + 1] = COMMA
                  /\ \A k \in a..(ij[1] - 1) : env_val[k] = SP
                  /\ \A k \in (ij[2] + 1)..b : env_val[k] = SP } }

HdInit ==
    /\ RsIdle /\ RnIdle /\ ClIdle /\ ExtIdle
    /\ user_message_truncate = DefaultTruncate
    /\ dr_impl = "codex"
    /\ dr_pc = "start"
    /\ \E env_hide_1 \in {<<>>} \cup SeqsUpTo(EnvChars, MaxEnvLen), env_hide_2 \in JunoValues :
          /\ environ = [CODEX_HIDE_STREAM_TYPES |-> env_hide_1,
                        JUNO_CODE_HIDE_STREAM_TYPES |-> env_hide_2]
          /\ dr_named = EntriesOf(env_hide_1) \cup EntriesOf(env_hide_2)
    /\ hide_types = {}
    /\ \E item \in HdItems : dr_items = <<item>>
    /\ dr_lines = LinesOf(StreamOf(ItemTexts(dr_items), <<NL>>), <<>>)
    /\ pending = <<>>
    /\ last_token_count = None
    /\ dr_out = <<>> /\ dr_seen = <<>> /\ dr_dropped = <<>>

\* run_codex resolves hide_types
ResolveHide ==
    /\ dr_impl = "codex" /\ dr_pc = "start"
    /\ hide_types' = ResolveHideTypes(environ.CODEX_HIDE_STREAM_TYPES,
                                      environ.JUNO_CODE_HIDE_STREAM_TYPES)
    /\ dr_pc' = "reading"
    /\ UNCHANGED <<dr_impl, dr_items, dr_named, dr_lines, environ, pending,
                   last_token_count, dr_out, dr_seen, dr_dropped>>
    /\ UNCHANGED <<ext_vars, rs_vars, rn_vars, user_message_truncate, cl_vars>>

HdNext == ResolveHide \/ CodexLine \/ CodexEnd

SpecHide == HdInit /\ [][HdNext]_vars

\* C27: once resolved, the suppressed set is the three default kinds together
\* with the entries of CODEX_HIDE_STREAM_TYPES and those of
\* JUNO_CODE_HIDE_STREAM_TYPES, trimmed, empty ones left out: neither
\* variable overrides the other, no value takes a default kind out, and it
\* is the set the run suppresses by: the child's event is printed exactly
\* when its kind is not in it.
C27_SuppressedSet ==
    dr_pc # "start" =>
        /\ hide_types = {<<"turn_diff">>, <<"token_count">>, <<"exec_command_output_delta">>}
                        \cup EntriesOf(environ.CODEX_HIDE_STREAM_TYPES)
                        \cup EntriesOf(environ.JUNO_CODE_HIDE_STREAM_TYPES)
        /\ {<<"turn_diff">>, <<"token_count">>, <<"exec_command_output_delta">>} \subseteq hide_types
        /\ dr_pc = "closed" =>
              (dr_out = <<>>) =
                 (dr_items[1].kind \in
                     {<<"turn_diff">>, <<"token_count">>, <<"exec_command_output_delta">>}
                     \cup EntriesOf(environ.CODEX_HIDE_STREAM_TYPES)
                     \cup EntriesOf(environ.JUNO_CODE_HIDE_STREAM_TYPES))

\* Both variables are set, the first with a blank and an empty entry: the
\* set holds the defaults, foo and bar, and the child's bar event was
\* suppressed.
C27_Witness ==
    /\ dr_pc = "closed"
    /\ environ = [CODEX_HIDE_STREAM_TYPES |-> <<SP, "foo", COMMA>>,
                  JUNO_CODE_HIDE_STREAM_TYPES |-> <<"bar">>]
    /\ hide_types = default_hidden \cup {<<"foo">>, <<"bar">>}
    /\ dr_items[1].kind = <<"bar">>
    /\ dr_out = <<>>


\* ---------------------------------------------------------------------------
\* Outer type and kind in the header (codex.py, _format_msg_pretty)
\* ---------------------------------------------------------------------------

\* The header line of a rendering, parsed
HeaderOf(r) == loads(FirstLine(r.text)).val

\* The header has type outer and item_type kind
DisclosesBoth(r, outer, kind) ==
    /\ Get(HeaderOf(r), <<"type">>) = Str(outer)
    /\ Get(HeaderOf(r), <<"item_type">>) = Str(kind)

\* The kinds whose branch of _format_msg_pretty writes a header of its own,
\* with the kind as type
KindHeaded == {<<"agent_message">>, <<"exec_command_end">>}

\* C28 as stated: every rendered item-schema event, whose outer type
\* item.completed differs from its kind, has a header with type item.completed
\* and item_type the kind; the rendered envelope and flat events, which have
\* no outer type or one equal to the kind, have no item_type in the header.
C28_OuterKindDisclosure ==
    /\ (rn_item.done /\ rn_item.rendered) =>
           DisclosesBoth(rn_item, <<"item.completed">>, rn_kind)
    /\ (rn_envelope.done /\ rn_envelope.rendered) =>
           ~HasKey(HeaderOf(rn_envelope), <<"item_type">>)
    /\ (rn_flat.done /\ rn_flat.rendered) =>
           ~HasKey(HeaderOf(rn_flat), <<"item_type">>)

\* C28, amended: the same, except that a rendered item-schema event of kind
\* agent_message or exec_command_end has a header whose type is the kind and
\* which has no item_type.
C28_OuterKindDisclosureButKindHeaded ==
    /\ (rn_item.done /\ rn_item.rendered /\ rn_kind \notin KindHeaded) =>
           DisclosesBoth(rn_item, <<"item.completed">>, rn_kind)
    /\ (rn_item.done /\ rn_item.rendered /\ rn_kind \in KindHeaded) =>
           /\ Get(HeaderOf(rn_item), <<"type">>) = Str(rn_kind)
           /\ ~HasKey(HeaderOf(rn_item), <<"item_type">>)
    /\ (rn_envelope.done /\ rn_envelope.rendered) =>
           ~HasKey(HeaderOf(rn_envelope), <<"item_type">>)
    /\ (rn_flat.done /\ rn_flat.rendered) =>
           ~HasKey(HeaderOf(rn_flat), <<"item_type">>)

\* An item-schema event of another kind was rendered with both in its header
C28_Witness ==
    /\ rn_item.done /\ rn_item.rendered /\ rn_kind = <<"reasoning">>
    /\ DisclosesBoth(rn_item, <<"item.completed">>, rn_kind)
    /\ rn_flat.done /\ rn_flat.rendered


\* ---------------------------------------------------------------------------
\* The message-text fallback chain (codex.py, _extract_message_text and the
\* kinds of _format_msg_pretty that show a message)
\* ---------------------------------------------------------------------------

\* The kinds rendered with a message field or a message: block
MessageKinds ==
    {<<"agent_message">>, <<"message">>, <<"assistant_message">>, <<"assistant">>}

\* The fields of the chain, in the order they are tried
ChainPaths ==
    << <<"message">>, <<"text">>, <<"final">>, <<"result", "message">>,
       <<"result", "text">>, <<"content[]", "text">> >>

ChainPathSet == { ChainPaths[i] : i \in 1..Len(ChainPaths) }

\* Events of the message kinds with one or two fields of the chain
CnInit ==
    /\ RsIdle /\ DrIdle /\ ClIdle /\ ExtIdle
    /\ rn_envelope = NotRendered /\ rn_item = NotRendered /\ rn_flat = NotRendered
    /\ rn_claude = NotRendered
    /\ rn_service = "codex"
    /\ rn_kind \in MessageKinds
    /\ rn_path \in ChainPathSet
    /\ rn_value \in RnValues
    /\ \/ rn_more = NoMore
       \/ \E p \in ChainPathSet \ {rn_path}, v \in RnValues : rn_more = [path |-> p, value |-> v]
    /\ rn_line = <<>>
    /\ user_message_truncate = DefaultTruncate

\* The envelope-schema and the item-schema event, whose payload holds the fields
CnNext == RenderEnvelope \/ RenderItem

SpecChain == CnInit /\ [][CnNext]_vars

\* The value the payload holds at the i-th field of the chain, None when the
\* field is absent
ChainValue(i) ==
    IF rn_path = ChainPaths[i] THEN rn_value
    ELSE IF rn_more.path = ChainPaths[i] THEN rn_more.value
    ELSE None

\* The i-th field holds a non-empty string
ChainHolds(i) == ChainValue(i).t = "str" /\ ChainValue(i).v # <<>>

\* The first non-empty string among the fields of the chain, <<>> when there
\* is none
FirstOfChain ==
    IF \E i \in 1..Len(ChainPaths) : ChainHolds(i)
    THEN ChainValue(CHOOSE i \in 1..Len(ChainPaths) :
                        ChainHolds(i) /\ \A j \in 1..(i - 1) : ~ChainHolds(j)).v
    ELSE <<>>

\* The text a rendering shows: its message field or message: block, <<>>
\* when it has neither
MessageShown(r) == IF r.field = "message" /\ r.shown.t = "str" THEN r.shown.v ELSE <<>>

\* C29: every rendered event of a message kind shows the first non-empty
\* string among message, text, final, result.message, result.text and the
\* content text, in that order, and an event of a message kind one of whose
\* fields of the chain holds a non-empty string is rendered.
C29_MessageFallbackChain ==
    \A r \in {rn_envelope, rn_item} :
        r.done =>
            /\ r.rendered => MessageShown(r) = FirstOfChain
            /\ FirstOfChain # <<>> => r.rendered


\* ---------------------------------------------------------------------------
\* Nested tool results (claude.py, pretty_format_json)
\* ---------------------------------------------------------------------------

\* The types of the events that wrap a tool result
OuterTypes == {"user", "assistant", "system", "foo"}

\* {"type": outer, "message": {"role": outer, "content":
\*     [{"type": "tool_result", "tool_use_id": "t1", "content": value}]}}
ToolResultEvent(outer, value) ==
    Obj(<< <<<<"type">>, Str(<<outer>>)>>,
           <<<<"message">>,
             Obj(<< <<<<"role">>, Str(<<outer>>)>>,
                    <<<<"content">>,
                      Lst(<< Obj(<< <<<<"type">>, Str(<<"tool_result">>)>>,
                                    <<<<"tool_use_id">>, Str(<<"t1">>)>>,
                                    <<<<"content">>, value>> >>) >>)>> >>)>> >>)

\* One tool result, wrapped in an event of each type
FtInit ==
    /\ RsIdle /\ DrIdle /\ ClIdle /\ ExtIdle
    /\ rn_envelope = NotRendered /\ rn_item = NotRendered /\ rn_flat = NotRendered
    /\ rn_claude = NotRendered /\ rn_more = NoMore
    /\ rn_service = "claude"
    /\ rn_kind = <<>> /\ rn_path = <<>>
    /\ rn_value \in RnValues
    /\ \E outer \in OuterTypes : rn_line = dumps(ToolResultEvent(outer, rn_value))
    /\ user_message_truncate \in TruncateSettings

SpecFlatten == FtInit /\ [][RenderClaude]_vars

\* The rendering shows value: as the lines after "content:" when it is a text
\* with a line break, as the content field of the header otherwise
ShowsContent(r, value) ==
    IF HasLineBreak(value)
    THEN /\ HasChar(r.text, NL)
         /\ FirstLine(RestLines(r.text)) = <<"content", COLON>>
         /\ RestLines(RestLines(r.text)) = value.v
    ELSE /\ ~HasChar(r.text, NL)
         /\ Get(HeaderOf(r), <<"content">>) = value

\* C30: every event whose content[0] is a tool_result object is rendered with
\* the header type tool_result and the nested tool_use_id, with the nested
\* content as the content field or the content: block, and without the
\* message wrapper, whatever the type of the outer event.
C30_ToolResultFlattening ==
    rn_claude.done =>
        /\ rn_claude.printed
        /\ Get(HeaderOf(rn_claude), <<"type">>) = Str(<<"tool_result">>)
        /\ Get(HeaderOf(rn_claude), <<"tool_use_id">>) = Str(<<"t1">>)
        /\ ShowsContent(rn_claude, rn_value)
        /\ ~HasKey(HeaderOf(rn_claude), <<"message">>)


\* ---------------------------------------------------------------------------
\* Events no rendering rule matches (claude.py, the last branch of
\* pretty_format_json; codex.py, the last lines of handle_obj)
\* ---------------------------------------------------------------------------

\* The field is a text named result with a line break
MultiLineResult(k, v) == k = <<"result">> /\ IsStr(v) /\ HasChar(v.v, NL)

HasMultiLineResult(obj) ==
    \E i \in 1..Len(obj.v) : MultiLineResult(obj.v[i][1], obj.v[i][2])

\* The header h keeps every field of obj, but a multi-line result, which
\* follows the header as a result: block
KeepsFields(text, h, obj) ==
    \A i \in 1..Len(obj.v) :
        IF MultiLineResult(obj.v[i][1], obj.v[i][2])
        THEN /\ ~HasKey(h, <<"result">>)
             /\ RestLines(text) = <<"result", COLON, NL>> \o obj.v[i][2].v
        ELSE Get(h, obj.v[i][1]) = obj.v[i][2]

\* The rendering is obj with datetime and counter, a multi-line result apart
MergedFallback(r, obj) ==
    /\ r.printed
    /\ loads(FirstLine(r.text)).ok
    /\ Get(HeaderOf(r), <<"datetime">>) = Str(<<now>>)
    /\ HasKey(HeaderOf(r), <<"counter">>)
    /\ KeepsFields(r.text, HeaderOf(r), obj)
    /\ HasMultiLineResult(obj) \/ ~HasChar(r.text, NL)

\* The line of claude's stream has a type other than user and assistant and
\* no message
ClaudeUnmatched ==
    /\ rn_service = "claude"
    /\ loads(rn_line).ok
    /\ Get(loads(rn_line).val, <<"type">>) \notin {Str(<<"user">>), Str(<<"assistant">>)}
    /\ ~HasKey(loads(rn_line).val, <<"message">>)

\* The codex event is of a kind _format_msg_pretty has no branch for
CodexUnmatched == rn_service = "codex" /\ rn_kind = <<"foo">>

PrintedAsIs(r, obj) ==
    /\ r.printed
    /\ ~HasChar(r.text, NL)
    /\ loads(r.text).ok
    /\ loads(r.text).val = obj

CmPaths ==
    {<<"aggregated_output">>, <<"output">>, <<"formatted_output">>,
     <<"result", "aggregated_output">>, <<"result", "output">>,
     <<"result", "formatted_output">>, <<"content[]", "text">>, <<"note">>}

\* What the event has under command, status and state: nothing, an empty or
\* a non-empty text
CmCommands == {None, Str(<<>>), Str(<<"ls">>)}
CmStatuses == {None, Str(<<>>), Str(<<"done">>)}
CmStates == {None, Str(<<"running">>)}

\* The item k: v when there is a v
Field(k, v) == IF v = None THEN <<>> ELSE << <<<<k>>, v>> >>

\* The command_execution payload with these fields
CommandPayload(command, status, state, items) ==
    Obj(<< <<<<"type">>, Str(<<"command_execution">>)>> >>
        \o Field("command", command) \o Field("status", status) \o Field("state", state)
        \o items)

\* The event around it: {"type": outer, "item": payload}, or
\* {"id": "1", "msg": payload} when there is no outer type
CommandEvent(outer, payload) ==
    IF outer = <<>>
    THEN Obj(<< <<<<"id">>, Str(<<"1">>)>>, <<<<"msg">>, payload>> >>)
    ELSE Obj(<< <<<<"type">>, Str(outer)>>, <<<<"item">>, payload>> >>)

CmOuters == {<<>>, <<"item.started">>, <<"item.completed">>}

\* One line holding a command_execution event
CmInit ==
    /\ RsIdle /\ DrIdle /\ ClIdle /\ ExtIdle
    /\ rn_envelope = NotRendered /\ rn_item = NotRendered /\ rn_flat = NotRendered
    /\ rn_claude = NotRendered /\ rn_more = NoMore
    /\ rn_service = "codex"
    /\ rn_kind = <<"command_execution">>
    /\ rn_path \in CmPaths
    /\ rn_value \in RnValues
    /\ \E outer \in CmOuters, command \in CmCommands, status \in CmStatuses, state \in CmStates :
          rn_line = dumps(CommandEvent(outer,
                              CommandPayload(command, status, state, RnItems)))
    /\ user_message_truncate = DefaultTruncate

\* The line, parsed, through handle_obj
RenderCommand ==
    /\ rn_service = "codex" /\ rn_line # <<>> /\ ~rn_item.done
    /\ rn_item' = CodexRendering(loads(rn_line).val)
    /\ UNCHANGED <<ext_vars, rs_vars, rn_service, rn_kind, rn_path, rn_value, rn_envelope,
                   rn_flat, rn_line, rn_claude, rn_more, user_message_truncate, dr_vars,
                   cl_vars>>

SpecCommand == CmInit /\ [][RenderCommand]_vars

\* The payload of the event on the line
LinePayload ==
    IF HasKey(loads(rn_line).val, <<"item">>)
    THEN Get(loads(rn_line).val, <<"item">>)
    ELSE Get(loads(rn_line).val, <<"msg">>)

\* The textual output of the event: the text at its output field, if any
CommandOutput ==
    IF rn_path # <<"note">> /\ IsStr(rn_value) THEN rn_value.v ELSE <<>>

NonEmptyText(x) == IsStr(x) /\ x.v # <<>>

\* The header has the command of the payload, and as status its status, or
\* its state when it has no status
CarriesContext(h, payload) ==
    /\ IF NonEmptyText(Get(payload, <<"command">>))
       THEN Get(h, <<"command">>) = Get(payload, <<"command">>)
       ELSE ~HasKey(h, <<"command">>)
    /\ IF NonEmptyText(Get(payload, <<"status">>))
       THEN Get(h, <<"status">>) = Get(payload, <<"status">>)
       ELSE IF NonEmptyText(Get(payload, <<"state">>))
       THEN Get(h, <<"status">>) = Get(payload, <<"state">>)
       ELSE ~HasKey(h, <<"status">>)

\* C32: a command_execution event without textual output is rendered as one
\* header line with the command and the status (the status of the event, else
\* its state) and no aggregated_output; with an output without line break the
\* header line has it as aggregated_output; with an output with a line break
\* the header is followed by "aggregated_output:" and the output.
C32_StructuredAction ==
    rn_item.done =>
        /\ rn_item.printed /\ rn_item.rendered
        /\ loads(FirstLine(rn_item.text)).ok
        /\ CarriesContext(HeaderOf(rn_item), LinePayload)
        /\ IF CommandOutput = <<>>
           THEN /\ ~HasChar(rn_item.text, NL)
                /\ ~HasKey(HeaderOf(rn_item), <<"aggregated_output">>)
           ELSE IF HasChar(CommandOutput, NL)
           THEN /\ ~HasKey(HeaderOf(rn_item), <<"aggregated_output">>)
                /\ RestLines(rn_item.text) = <<"aggregated_output", COLON, NL>> \o CommandOutput
           ELSE /\ ~HasChar(rn_item.text, NL)
                /\ Get(HeaderOf(rn_item), <<"aggregated_output">>) = Str(CommandOutput)

\* An item.started event with a command and a state, without output, was
\* rendered as its header alone
C32_Witness ==
    /\ rn_item.done /\ rn_item.rendered
    /\ CommandOutput = <<>>
    /\ Get(loads(rn_line).val, <<"type">>) = Str(<<"item.started">>)
    /\ ~HasKey(LinePayload, <<"status">>)
    /\ Get(HeaderOf(rn_item), <<"command">>) = Str(<<"ls">>)
    /\ Get(HeaderOf(rn_item), <<"status">>) = Str(<<"running">>)
    /\ ~HasChar(rn_item.text, NL)


\* ---------------------------------------------------------------------------
\* A service object whose run method is called again (claude.py, __init__
\* and run_claude; codex.py, run_codex)
\* ---------------------------------------------------------------------------

MaxInvocations == 2
MaxRunLines == 2

\* What the child of one run of claude writes: events and a line that is no
\* JSON, each rendered or printed for itself by a new service object with the
\* counter of the events before it
IvClaudeLines ==
    { dumps(Obj(<< <<<<"type">>, Str(<<"system">>)>> >>)),
      dumps(ClaudeEvent("user", Str(<<"hi">>))),
      <<"not json">> }

\* What the child of one run of codex writes: an event, a text and the
\* beginning of an event, which stays in pending until the stream ends
IvCodexReads ==
    { FooEvent \o <<NL>>,
      <<"warn", NL>>,
      <<LB, DQ, "type", DQ, COLON, NL>> }

\* The first call of run_claude or run_codex on a new service object
IvInit ==
    /\ RsIdle /\ RnIdle /\ ExtIdle
    /\ \/ /\ DrIdle
          /\ user_message_truncate = DefaultTruncate
          /\ cl_pretty = TRUE
          /\ message_counter = 0
          /\ cl_out = <<>>
          /\ \E lines \in SeqsUpTo(IvClaudeLines, MaxRunLines) :
                cl_lines = [i \in 1..Len(lines) |-> Append(lines[i], NL)]
       \/ /\ ClIdle
          /\ DrReading
          /\ dr_impl = "codex"
          /\ dr_items = <<>>
          /\ dr_named = {}
          /\ environ = NoEnviron
          /\ hide_types = ResolveHideTypes(<<>>, <<>>)
          /\ dr_lines \in SeqsUpTo(IvCodexReads, MaxRunLines)

\* run_claude is called again on the same object, after it returned: nothing
\* in run_claude assigns message_counter
ClaudeAgain ==
    /\ pr_pc = "loop"
    /\ dr_impl = "" /\ cl_lines = <<>>
    /\ invocation < MaxInvocations
    /\ invocation' = invocation + 1
    /\ \E lines \in SeqsUpTo(IvClaudeLines, MaxRunLines) :
          cl_lines' = [i \in 1..Len(lines) |-> Append(lines[i], NL)]
    /\ cl_out' = <<>>
    /\ UNCHANGED <<message_counter, cl_pretty>>
    /\ UNCHANGED <<pr_vars, ss_vars, rp_vars, ps_vars, pp_vars, wd_vars, fr_vars, sl_vars, rs_vars, rn_vars,
                   user_message_truncate, dr_vars>>

\* run_codex is called again on the same object, after it returned: hide_types,
\* last_token_count and pending are its local variables
CodexAgain ==
    /\ pr_pc = "loop"
    /\ dr_impl = "codex" /\ dr_pc = "closed"
    /\ invocation < MaxInvocations
    /\ invocation' = invocation + 1
    /\ dr_pc' = "reading"
    /\ hide_types' = ResolveHideTypes(environ.CODEX_HIDE_STREAM_TYPES,
                                      environ.JUNO_CODE_HIDE_STREAM_TYPES)
    /\ last_token_count' = None
    /\ pending' = <<>>
    /\ dr_out' = <<>> /\ dr_seen' = <<>> /\ dr_dropped' = <<>>
    /\ dr_lines' \in SeqsUpTo(IvCodexReads, MaxRunLines)
    /\ UNCHANGED <<dr_impl, dr_items, dr_named, environ>>
    /\ UNCHANGED <<pr_vars, ss_vars, rp_vars, ps_vars, pp_vars, wd_vars, fr_vars, sl_vars, rs_vars, rn_vars,
                   user_message_truncate, cl_vars>>

IvNext == ClaudeLine \/ ClaudeAgain \/ CodexLine \/ CodexEnd \/ CodexAgain

SpecInvocations == IvInit /\ [][IvNext]_vars

\* The step is the start of a run
RunStarts == invocation' # invocation

\* C33: every run starts with an empty pending buffer and a counter at zero,
\* and the first event rendered in a later run of the same service object has
\* the counter #1.
C33_PerInvocationState ==
    [][/\ RunStarts => (pending' = <<>> /\ message_counter' = 0)
       /\ (invocation' > 1 /\ ClRendered' # <<>>) =>
              CounterOf(ClRendered[1])' = Str(CounterText(1))]_vars


\* ---------------------------------------------------------------------------
\* The last timestamp (slack_state.py, mark_processed and _load_state)
\* ---------------------------------------------------------------------------

\* The timestamps the first n calls of mark_processed have processed
ProcessedBy(n) == { ss_calls[i].ts : i \in { j \in 1..n : ss_calls[j].ret } }

\* The greatest of them, None when there is none
GreatestOf(S) ==
    IF S = {} THEN "None"
    ELSE CHOOSE ts \in S : \A other \in S : TsRank(ts) >= TsRank(other)

\* C34: get_last_timestamp of the manager that made the calls returns the
\* greatest timestamp among the messages processed so far, None when there is
\* none; so does a manager that has loaded the state file.
C34_LastTimestampIsMax ==
    /\ "slack" \in managers => last_ts = GreatestOf(ProcessedBy(Len(ss_calls)))
    /\ reader.of = "slack" => reader.view.last_ts = GreatestOf(ProcessedBy(reader.calls))


\* ---------------------------------------------------------------------------
\* Events after a line with an unmatched brace or quote (codex.py, run_codex;
\* gemini.py, run_gemini)
\* ---------------------------------------------------------------------------

MaxRecReads == 3

\* {"id": "1", "msg": {"type": "agent_message", "status": "ok", "message": "hi"}}
HiEvent == Envelope(<<"agent_message">>, FieldItems(<<"message">>, Str(<<"hi">>)))

\* The events the child writes, each on a line of its own
RecEvents == {HiEvent, Obj(<< <<<<"type">>, Str(<<"foo">>)>> >>)}

\* The lines the child writes: the events, a text with an opening brace that
\* nothing closes, and an object whose last string is not closed
RecReads ==
    { dumps(e) \o <<NL>> : e \in RecEvents }
    \cup { <<"oops", SP, LB, NL>>,
           <<LB, DQ, "note", DQ, COLON, SP, DQ, "x", RB, NL>> }

RecInit ==
    /\ RsIdle /\ RnIdle /\ ClIdle /\ ExtIdle
    /\ DrReading
    /\ dr_impl \in {"codex", "gemini"}
    /\ dr_items = <<>>
    /\ dr_named = {}
    /\ environ = NoEnviron
    /\ hide_types = IF dr_impl = "codex" THEN ResolveHideTypes(<<>>, <<>>) ELSE {}
    /\ dr_lines \in SeqsUpTo(RecReads, MaxRecReads)

SpecRecovery == RecInit /\ [][SmNext]_vars

\* The line is one of the events
IsEventLine(line) == \E e \in RecEvents : line = dumps(e) \o <<NL>>

\* The step hands the event of the line to the renderer and prints what it
\* gives
RenderedOnArrival(line) ==
    \E i \in (Len(dr_out) + 1)..Len(dr_out') :
        /\ dr_out'[i].route = "handle"
        /\ dr_out'[i].obj = loads(strip(line)).val

\* C35: every read that is a complete event is rendered by the step that
\* reads it, whatever lines were read before it.
C35_RecoveryAfterUnbalanced ==
    [][(dr_lines # <<>> /\ dr_lines' = Tail(dr_lines) /\ IsEventLine(Head(dr_lines)))
          => RenderedOnArrival(Head(dr_lines))]_vars


\* ---------------------------------------------------------------------------
\* The child's two pipes (codex.py, run_codex 401-410, 473-475, 567-578;
\* claude.py, run_claude 525-559)
\* ---------------------------------------------------------------------------

\* How many writes a pipe holds before a further write blocks
PipeCapacity == 1
MaxChildWrites == 4

ChildStatuses == {0, 1}

\* After Popen(stdout=PIPE, stderr=PIPE): the driver enters its loop over
\* process.stdout, the child has a finite list of writes to do
PpInit ==
    /\ RsIdle /\ RnIdle /\ DrIdle /\ ClIdle /\ PrIdle /\ SsIdle /\ RpIdle /\ PsIdle
    /\ user_message_truncate = DefaultTruncate
    /\ invocation = 1 /\ WdIdle /\ FrIdle /\ SlIdle
    /\ pp_pc = "loop"
    /\ pipes = [stdout |-> 0, stderr |-> 0]
    /\ \E todo \in SeqsUpTo({"stdout", "stderr"}, MaxChildWrites), status \in ChildStatuses :
          writer = [todo |-> todo, state |-> "running", status |-> status]
    /\ pp_returned = [done |-> FALSE, code |-> 0]

pp_others ==
    <<rs_vars, rn_vars, user_message_truncate, dr_vars, cl_vars, pr_vars, ss_vars, rp_vars,
      ps_vars, invocation, wd_vars, fr_vars, sl_vars>>

\* The child's next write finds room in its pipe; a write to a full pipe blocks
ChildWrites ==
    /\ writer.state = "running" /\ writer.todo # <<>>
    /\ pipes[Head(writer.todo)] < PipeCapacity
    /\ pipes' = [pipes EXCEPT ![Head(writer.todo)] = @ + 1]
    /\ writer' = [writer EXCEPT !.todo = Tail(@)]
    /\ UNCHANGED <<pp_pc, pp_returned, pp_others>>

\* The child has written everything: it exits, which closes its ends of the pipes
ChildEnds ==
    /\ writer.state = "running" /\ writer.todo = <<>>
    /\ writer' = [writer EXCEPT !.state = "exited"]
    /\ UNCHANGED <<pp_pc, pipes, pp_returned, pp_others>>

\* for line in process.stdout: one more line; the read blocks while the pipe
\* is empty and the child has it open
ReadsStdout ==
    /\ pp_pc = "loop"
    /\ pipes.stdout > 0
    /\ pipes' = [pipes EXCEPT !.stdout = @ - 1]
    /\ UNCHANGED <<pp_pc, writer, pp_returned, pp_others>>

\* The loop ends at the end of file of stdout
StdoutEnds ==
    /\ pp_pc = "loop"
    /\ pipes.stdout = 0 /\ writer.state = "exited"
    /\ pp_pc' = "wait"
    /\ UNCHANGED <<pipes, writer, pp_returned, pp_others>>

\* process.wait() returns
WaitReturns ==
    /\ pp_pc = "wait"
    /\ writer.state = "exited"
    /\ pp_pc' = "stderr"
    /\ UNCHANGED <<pipes, writer, pp_returned, pp_others>>

\* if process.stderr and process.returncode != 0: process.stderr.read();
\* return process.returncode
ReadsStderr ==
    /\ pp_pc = "stderr"
    /\ pipes' = IF writer.status # 0 THEN [pipes EXCEPT !.stderr = 0] ELSE pipes
    /\ pp_returned' = [done |-> TRUE, code |-> writer.status]
    /\ pp_pc' = "done"
    /\ UNCHANGED <<writer, pp_others>>

PpNext ==
    \/ ChildWrites \/ ChildEnds
    \/ ReadsStdout \/ StdoutEnds \/ WaitReturns \/ ReadsStderr

SpecPipes == PpInit /\ [][PpNext]_vars

\* The driver and the child each take the step they can take
LiveSpecPipes == SpecPipes /\ WF_vars(PpNext)

\* The child is blocked in a write to its full stderr pipe
BlockedOnStderr ==
    /\ writer.state = "running" /\ writer.todo # <<>>
    /\ Head(writer.todo) = "stderr" /\ pipes.stderr = PipeCapacity

\* The driver is blocked in a read of the empty stdout pipe
BlockedOnStdout == pp_pc = "loop" /\ pipes.stdout = 0 /\ writer.state = "running"

\* C36: the driver eventually returns the child's exit status, and the child
\* is never blocked writing stderr while the driver is blocked reading stdout.
C36_NoPipeDeadlock ==
    /\ <>(pp_returned.done /\ pp_returned.code = writer.status)
    /\ [](~(BlockedOnStderr /\ BlockedOnStdout))


(***************************************************************************)
(* The working directory over one call of run_claude.  The call stands at   *)
(* "getcwd", "chdir", "popen", "loop", "wait", "stderr", "restore" inside   *)
(* the try, at "except_interrupt" or "except_exception" once a clause has  *)
(* been entered, at "done" after the return or the raise.  A directory may  *)
(* be removed while the call runs; a KeyboardInterrupt may arrive wherever  *)
(* the call stands.                                                        *)
(***************************************************************************)

MaxChildLines == 2

WdDirs == {"/start", "/project"}

WdInit ==
    /\ RsIdle /\ RnIdle /\ DrIdle /\ ClIdle /\ PrIdle /\ SsIdle /\ RpIdle /\ PsIdle
    /\ user_message_truncate = DefaultTruncate
    /\ invocation = 1 /\ PpIdle /\ FrIdle /\ SlIdle
    /\ wd_pc = "getcwd"
    /\ wd_dirs = WdDirs
    /\ cwd \in WdDirs
    /\ wd_called_in = cwd
    /\ original_cwd = Unbound
    /\ project_path \in WdDirs \cup {"/missing"}
    /\ \E n \in 0..MaxChildLines, status \in ChildStatuses :
          wd_child = [bound |-> FALSE, state |-> "none", status |-> status, lines |-> n,
                      spawned_in |-> "", returncode |-> 0]
    /\ wd_result = [kind |-> "none", code |-> 0, exc |-> ""]

wd_others ==
    <<rs_vars, rn_vars, user_message_truncate, dr_vars, cl_vars, pr_vars, ss_vars, rp_vars,
      ps_vars, invocation, pp_vars, fr_vars, sl_vars>>

\* Inside the try of run_claude
InTry == wd_pc \in {"getcwd", "chdir", "popen", "loop", "wait", "stderr", "restore"}

\* original_cwd = os.getcwd(): FileNotFoundError when the directory is gone
Getcwd ==
    /\ wd_pc = "getcwd"
    /\ IF cwd \in wd_dirs
       THEN original_cwd' = cwd /\ wd_pc' = "chdir"
       ELSE wd_pc' = "except_exception" /\ UNCHANGED original_cwd
    /\ UNCHANGED <<cwd, project_path, wd_dirs, wd_child, wd_called_in, wd_result, wd_others>>

\* os.chdir(self.project_path)
ChdirProject ==
    /\ wd_pc = "chdir"
    /\ IF project_path \in wd_dirs
       THEN cwd' = project_path /\ wd_pc' = "popen"
       ELSE wd_pc' = "except_exception" /\ UNCHANGED cwd
    /\ UNCHANGED <<original_cwd, project_path, wd_dirs, wd_child, wd_called_in, wd_result,
                   wd_others>>

\* process = subprocess.Popen(cmd, ...): the child starts in the working
\* directory of the caller, or cannot be launched
Spawn ==
    /\ wd_pc = "popen"
    /\ \/ /\ wd_child' = [wd_child EXCEPT !.bound = TRUE, !.state = "running",
                                          !.spawned_in = cwd]
          /\ wd_pc' = "loop"
       \/ /\ wd_pc' = "except_exception"
          /\ UNCHANGED wd_child
    /\ UNCHANGED <<cwd, original_cwd, project_path, wd_dirs, wd_called_in, wd_result, wd_others>>

\* One turn of for line in process.stdout: the print succeeds or fails
ReadsLine ==
    /\ wd_pc = "loop" /\ wd_child.lines > 0
    /\ wd_child' = [wd_child EXCEPT !.lines = @ - 1]
    /\ wd_pc' \in {"loop", "except_exception"}
    /\ UNCHANGED <<cwd, original_cwd, project_path, wd_dirs, wd_called_in, wd_result, wd_others>>

\* The child closes its stdout and exits; the loop ends
LoopEnds ==
    /\ wd_pc = "loop" /\ wd_child.lines = 0
    /\ wd_child' = [wd_child EXCEPT !.state = "exited"]
    /\ wd_pc' = "wait"
    /\ UNCHANGED <<cwd, original_cwd, project_path, wd_dirs, wd_called_in, wd_result, wd_others>>

\* process.wait()
WaitsChild ==
    /\ wd_pc = "wait"
    /\ wd_child' = [wd_child EXCEPT !.returncode = wd_child.status]
    /\ wd_pc' = "stderr"
    /\ UNCHANGED <<cwd, original_cwd, project_path, wd_dirs, wd_called_in, wd_result, wd_others>>

\* if process.stderr and process.returncode != 0: ... print(stderr_output, ...)
PrintsStderr ==
    /\ wd_pc = "stderr"
    /\ wd_pc' \in {"restore"} \cup (IF wd_child.returncode # 0 THEN {"except_exception"} ELSE {})
    /\ UNCHANGED <<cwd, original_cwd, project_path, wd_dirs, wd_child, wd_called_in, wd_result,
                   wd_others>>

\* os.chdir(original_cwd); return process.returncode
RestoreAndReturn ==
    /\ wd_pc = "restore"
    /\ IF original_cwd \in wd_dirs
       THEN /\ cwd' = original_cwd
            /\ wd_result' = [kind |-> "return", code |-> wd_child.returncode, exc |-> ""]
            /\ wd_pc' = "done"
       ELSE /\ wd_pc' = "except_exception"
            /\ UNCHANGED <<cwd, wd_result>>
    /\ UNCHANGED <<original_cwd, project_path, wd_dirs, wd_child, wd_called_in, wd_others>>

\* A KeyboardInterrupt arrives inside the try
Interrupts ==
    /\ InTry
    /\ wd_pc' = "except_interrupt"
    /\ UNCHANGED <<cwd, original_cwd, project_path, wd_dirs, wd_child, wd_called_in, wd_result,
                   wd_others>>

\* A handler that leaves the working directory where it is
StaysThere(original, current) == current

\* if 'original_cwd' in locals(): os.chdir(original_cwd)
RestoredCwd(original, current) == IF original # Unbound THEN original ELSE current

\* The restore of a handler raises
RestoreRaises == original_cwd # Unbound /\ original_cwd \notin wd_dirs

\* except KeyboardInterrupt: "if process:" raises with process unbound;
\* otherwise terminate, wait, restore and return 130, unless a second
\* KeyboardInterrupt arrives in the wait or the restore raises
HandlesInterrupt ==
    /\ wd_pc = "except_interrupt"
    /\ wd_pc' = "done"
    /\ IF ~wd_child.bound
       THEN /\ wd_result' = [kind |-> "raise", code |-> 0, exc |-> "UnboundLocalError"]
            /\ UNCHANGED <<cwd, wd_child>>
       ELSE \/ /\ wd_result' = [kind |-> "raise", code |-> 0, exc |-> "KeyboardInterrupt"]
               /\ UNCHANGED <<cwd, wd_child>>
            \/ /\ wd_child' = [wd_child EXCEPT !.state = "exited",
                                               !.returncode = wd_child.status]
               /\ IF RestoreRaises
                  THEN /\ wd_result' = [kind |-> "raise", code |-> 0,
                                        exc |-> "FileNotFoundError"]
                       /\ UNCHANGED cwd
                  ELSE /\ cwd' = RestoredCwd(original_cwd, cwd)
                       /\ wd_result' = [kind |-> "return", code |-> InterruptedCode,
                                        exc |-> ""]
    /\ UNCHANGED <<original_cwd, project_path, wd_dirs, wd_called_in, wd_others>>

\* except Exception: restore and return 1, unless the restore raises or a
\* KeyboardInterrupt arrives in the clause
HandlesException ==
    /\ wd_pc = "except_exception"
    /\ wd_pc' = "done"
    /\ \/ /\ wd_result' = [kind |-> "raise", code |-> 0, exc |-> "KeyboardInterrupt"]
          /\ UNCHANGED cwd
       \/ IF RestoreRaises
          THEN /\ wd_result' = [kind |-> "raise", code |-> 0, exc |-> "FileNotFoundError"]
               /\ UNCHANGED cwd
          ELSE /\ cwd' = RestoredCwd(original_cwd, cwd)
               /\ wd_result' = [kind |-> "return", code |-> ErrorCode, exc |-> ""]
    /\ UNCHANGED <<original_cwd, project_path, wd_dirs, wd_child, wd_called_in, wd_others>>

\* The directory the call was made in is removed while the call runs
RemovesDir ==
    /\ wd_pc \notin {"none", "done"}
    /\ wd_called_in \in wd_dirs
    /\ wd_dirs' = wd_dirs \ {wd_called_in}
    /\ UNCHANGED <<wd_pc, cwd, original_cwd, project_path, wd_child, wd_called_in, wd_result,
                   wd_others>>

WdNext ==
    \/ Getcwd \/ ChdirProject \/ Spawn \/ ReadsLine \/ LoopEnds \/ WaitsChild
    \/ PrintsStderr \/ RestoreAndReturn \/ Interrupts \/ HandlesInterrupt
    \/ HandlesException \/ RemovesDir

SpecCwd == WdInit /\ [][WdNext]_vars

\* C37: the child is spawned with the project path as working directory, and
\* whenever run_claude returns (the child's status, 130 after a user
\* interrupt, 1 after any other exception) the working directory is the one
\* that was current when run_claude was called.
C37_CwdRestored ==
    /\ wd_child.bound => wd_child.spawned_in = project_path
    /\ wd_result.kind = "return" =>
          /\ cwd = wd_called_in
          /\ wd_result.code \in {wd_child.status, InterruptedCode, ErrorCode}

\* run_claude returned 130 after an interrupt that arrived while the working
\* directory was the project path, another directory than the caller's
C37_Witness ==
    /\ wd_result.kind = "return" /\ wd_result.code = InterruptedCode
    /\ wd_child.bound /\ wd_child.spawned_in = project_path
    /\ project_path # wd_called_in
    /\ cwd = wd_called_in


(***************************************************************************)
(* The text on stdout as a function of the events.  Two runs of the codex   *)
(* driver are followed side by side: each is handed events one at a time,  *)
(* and each print(...) of handle_obj puts the rendering and a line break   *)
(* on that run's stdout.  datetime.now() answers the same in both.         *)
(***************************************************************************)

MaxFramed == 2

\* A short one-line agent_message, and a two-line one
ShortMessage == Envelope(<<"agent_message">>, FieldItems(<<"message">>, Str(<<"b">>)))
TwoLineMessage ==
    Envelope(<<"agent_message">>, FieldItems(<<"message">>, Str(<<"x", NL, "y">>)))

\* What print(...) writes for one event: the rendering and a line break
PrintedFor(obj_dict) ==
    LET h == handle_obj(obj_dict, default_hidden, None)
    IN  IF h.printed THEN Append(h.text, NL) ELSE <<>>

\* An agent_message whose text is the two lines followed by a line that is
\* the compact JSON object printed for the short message
EmbeddingMessage ==
    Envelope(<<"agent_message">>,
             FieldItems(<<"message">>,
                        Str(<<"x", NL, "y", NL>> \o handle_obj(ShortMessage, default_hidden,
                                                                None).text)))

\* The events handed to the driver, none of them suppressed
FrEvents ==
    {ShortMessage, TwoLineMessage, EmbeddingMessage, Obj(<< <<<<"type">>, Str(<<"foo">>)>> >>)}

FrInit ==
    /\ RsIdle /\ RnIdle /\ DrIdle /\ ClIdle /\ PrIdle /\ SsIdle /\ RpIdle /\ PsIdle
    /\ user_message_truncate = DefaultTruncate
    /\ invocation = 1 /\ PpIdle /\ WdIdle /\ SlIdle
    /\ fr_events = <<<<>>, <<>>>>
    /\ fr_text = <<<<>>, <<>>>>

fr_others ==
    <<rs_vars, rn_vars, user_message_truncate, dr_vars, cl_vars, pr_vars, ss_vars, rp_vars,
      ps_vars, invocation, pp_vars, wd_vars, sl_vars>>

\* handle_obj(obj_dict) in one of the two runs
Emits(side, obj_dict) ==
    /\ Len(fr_events[side]) < MaxFramed
    /\ fr_events' = [fr_events EXCEPT ![side] = Append(@, obj_dict)]
    /\ fr_text' = [fr_text EXCEPT ![side] = @ \o PrintedFor(obj_dict)]
    /\ UNCHANGED fr_others

EmitsFirst == \E obj_dict \in FrEvents : Emits(1, obj_dict)

EmitsSecond == \E obj_dict \in FrEvents : Emits(2, obj_dict)

FrNext == EmitsFirst \/ EmitsSecond

SpecFraming == FrInit /\ [][FrNext]_vars

\* C38 as stated: two different sequences of non-suppressed events never put
\* the same text on stdout; an event whose text holds a line that is a
\* compact JSON object with a type key is told apart from that text followed
\* by a separate event.
C38_FramingUnambiguous ==
    fr_events[1] # fr_events[2] => fr_text[1] # fr_text[2]


(***************************************************************************)
(* slack_respond.py: runs of main_loop, one after the other, over the same  *)
(* response state file.  Each run builds a ResponseStateManager from the    *)
(* file and goes through the kanban tasks that have an agent response and a *)
(* matching Slack message; a task stands here as the pair (task_id,         *)
(* message_ts) of the task and its message.  Between two runs the file may  *)
(* be left with a line that is not JSON, and --reset-tracker may be run.    *)
(***************************************************************************)

MaxRuns == 2
MaxTasks == 2

\* A line of the state file cut short in its write
TornLine == <<LB, DQ, "task_id", DQ, COLON, NL>>

NeverSent == [p \in SentPairs |-> 0]

SlInit ==
    /\ RsIdle /\ RnIdle /\ DrIdle /\ ClIdle /\ PrIdle /\ SsIdle /\ PsIdle
    /\ user_message_truncate = DefaultTruncate
    /\ invocation = 1 /\ PpIdle /\ WdIdle /\ FrIdle
    /\ rp_file = [exists |-> FALSE, lines |-> <<>>]
    /\ sent_responses = <<>> /\ sent_keys = {} /\ rp_calls = <<>>
    /\ sl_run = [n |-> 0, active |-> FALSE, todo |-> <<>>]
    /\ sl_sent = NeverSent

\* What get_kanban_tasks may answer: tasks with an agent response and a
\* matching message, no task id twice
KanbanTasks ==
    { tasks \in SeqsUpTo(SentPairs, MaxTasks) :
        \A i, j \in 1..Len(tasks) : i # j => tasks[i][1] # tasks[j][1] }

sl_others ==
    <<rs_vars, rn_vars, user_message_truncate, dr_vars, cl_vars, pr_vars, ss_vars, ps_vars,
      invocation, pp_vars, wd_vars, fr_vars, rp_calls>>

\* main_loop up to its loop: response_state = ResponseStateManager(...),
\* tasks = get_kanban_tasks(...)
RespondStarts ==
    /\ ~sl_run.active /\ sl_run.n < MaxRuns
    /\ \E tasks \in KanbanTasks :
          sl_run' = [n |-> sl_run.n + 1, active |-> TRUE, todo |-> tasks]
    /\ \E self \in {_load_state(rp_file)} :
          /\ rp_file' = self.state_file
          /\ sent_responses' = self.sent_responses
          /\ sent_keys' = self.sent_keys
    /\ UNCHANGED <<sl_sent, sl_others>>

\* if response_state.was_response_sent(task_id, message_ts): ... continue
Skips(self, task_id, message_ts) == was_response_sent(self, task_id, message_ts)

\* One turn of the loop over the tasks: skip, or send and, when Slack took
\* the response, record_sent, whose result is not looked at
RespondsTask ==
    /\ sl_run.active /\ sl_run.todo # <<>>
    /\ sl_run' = [sl_run EXCEPT !.todo = Tail(@)]
    /\ \E task \in {Head(sl_run.todo)} :
          IF Skips(RpState, task[1], task[2])
          THEN UNCHANGED <<sl_sent, rp_file, sent_responses, sent_keys>>
          ELSE \E response_ts \in ResponseTss, open_fails \in BOOLEAN :
                  IF response_ts = "None"
                  THEN UNCHANGED <<sl_sent, rp_file, sent_responses, sent_keys>>
                  ELSE \E r \in {record_sent(RpState, task[1], task[2], ChannelId,
                                             response_ts, open_fails)} :
                          /\ sl_sent' = [sl_sent EXCEPT ![task] = @ + 1]
                          /\ rp_file' = r.self.state_file
                          /\ sent_responses' = r.self.sent_responses
                          /\ sent_keys' = r.self.sent_keys
    /\ UNCHANGED sl_others

\* The loop is over; main_loop prints its summary and returns
RespondEnds ==
    /\ sl_run.active /\ sl_run.todo = <<>>
    /\ sl_run' = [sl_run EXCEPT !.active = FALSE]
    /\ UNCHANGED <<sl_sent, rp_file, sent_responses, sent_keys, sl_others>>

\* Between two runs the state file gets a line that json.loads rejects
FileTorn ==
    /\ ~sl_run.active /\ sl_run.n < MaxRuns
    /\ rp_file.exists
    /\ \A i \in 1..Len(rp_file.lines) : rp_file.lines[i] # TornLine
    /\ rp_file' = AppendLine(rp_file, TornLine)
    /\ UNCHANGED <<sl_run, sl_sent, sent_responses, sent_keys, sl_others>>

\* A run with --reset-tracker: response_state.reset_state(), return 0
RespondResets ==
    /\ ~sl_run.active /\ sl_run.n < MaxRuns
    /\ sl_run' = [sl_run EXCEPT !.n = @ + 1]
    /\ \E self \in {reset_state(_load_state(rp_file))} :
          /\ rp_file' = self.state_file
          /\ sent_responses' = self.sent_responses
          /\ sent_keys' = self.sent_keys
    /\ sl_sent' = NeverSent
    /\ UNCHANGED sl_others

SlNext == RespondStarts \/ RespondsTask \/ RespondEnds \/ FileTorn \/ RespondResets

SpecRespond == SlInit /\ [][SlNext]_vars

\* C39 as stated: over any number of runs of the respond loop on the same
\* state file, runs whose append to the file fails or whose file holds an
\* unparsable line included, Slack gets at most one response for each
\* (task_id, message_ts) pair since the last reset_state.
C39_AtMostOneResponse == \A p \in SentPairs : sl_sent[p] <= 1

====
